---- MODULE Spec2Model ----
(***************************************************************************)
(* A model of the rCore teaching kernel of this repository: the scheduler  *)
(* (task/manager.rs, task/processor.rs, task/mod.rs), the mutexes          *)
(* (sync/mutex.rs), the synchronisation system calls and the banker's      *)
(* safety test (syscall/sync.rs).                                          *)
(*                                                                         *)
(* The kernel runs on one hart and is not preempted while in kernel mode:  *)
(* a system call runs atomically up to its return or up to the context     *)
(* switch it performs (schedule).  A task that was switched out inside a   *)
(* system call resumes that call when run_tasks dispatches it again; the   *)
(* place it resumes at is kept in kpc.                                     *)
(***************************************************************************)
EXTENDS Integers, Sequences, FiniteSets, TLC

----------------------------------------------------------------------------
(* Bounds of the model *)

\* run_tasks dispatches one task at most this often
MaxDispatch == 3
\* the number of freely chosen system calls in a thread's program
FreeOps == 2
\* the number of times a thread increments the shared counter under the spin mutex
Iterations == 2
\* the number of freely chosen system calls of a process after it created its children
ProcOps == 2
\* the number of times a task yields before it exits, in the stride workload
Yields == 2
\* the most threads of a process deadlock_detected is called on
MaxThreads == 2
\* the most units of a resource
MaxUnits == 2

----------------------------------------------------------------------------
(* Program constants *)

\* priority given to a new task
DEFAULT_PRIORITY == 16
\* config::BIG_STRIDE; config.rs is not among the sources
BIG_STRIDE == 65536
\* 0xDEAD, the refusal sentinel (returned negated) and the "no thread" tid
DEAD == 57005

----------------------------------------------------------------------------
(* 64-bit unsigned values that may exceed 32-bit signed integers are kept  *)
(* as two limbs <<hi, lo>> of 30 bits: value = hi * 2^30 + lo.             *)

Limb == 2^30

U64(n) == <<n \div Limb, n % Limb>>

U64Lt(a, b) == \/ a[1] < b[1]
               \/ (a[1] = b[1] /\ a[2] < b[2])

U64Add(a, n) == <<a[1] + ((a[2] + n) \div Limb), (a[2] + n) % Limb>>

----------------------------------------------------------------------------
(* State *)

\* the threads of the modelled process: the thread with tid i is task i + 1
Tasks == 1..4
NoTask == 0
MutexIds == 0..1

VARIABLES
  task_status,     \* TaskControlBlockInner.task_status of every task
  ready_queue,     \* TaskManager.ready_queue
  current,         \* Processor.current (NoTask: the idle control flow runs)
  stride,          \* TaskControlBlockInner.stride, a U64
  priority,        \* TaskControlBlockInner.priority
  kpc,             \* where in the kernel the task resumes: "user" when it is in user mode
  kmx,             \* the mutex id of the lock call the task is suspended in
  ret,             \* the value the task's last system call returned
  mutex_list,      \* ProcessControlBlockInner.mutex_list: the mutex objects
  available,       \* ProcessControlBlockInner.available[0]
  allocation,      \* ProcessControlBlockInner.allocation[0]
  need,            \* ProcessControlBlockInner.need[0]
  deadlock_detection_enabled,
  panicked,        \* "" while the kernel runs, else the panic's reason
  held,            \* history: the mutexes a task locked (lock returned) and has not unlocked
  discipline,      \* history: every unlock so far was issued by a holder
  lock_log,        \* history: per mutex, the callers that blocked in lock, in call order
  wake_log,        \* history: per mutex, the waiters unlock woke, in wake order
  last_call,       \* history: the system call issued last, <<name, task, argument>>
  pid,             \* TaskControlBlock.pid of every task
  parent,          \* TaskControlBlockInner.parent (NoTask: None)
  children,        \* TaskControlBlockInner.children
  exit_code,       \* TaskControlBlockInner.exit_code
  out,             \* user memory: the i32 a task passes to waitpid as exit_code_ptr
  pid_allocator,   \* PID_ALLOCATOR: [current, recycled]
  fd_table,        \* TaskControlBlockInner.fd_table: per slot "" for None, else the file
  banker,          \* the process state deadlock_detected reads
  verdict,         \* <<what deadlock_detected returned>>, << >> before the call
  counter,         \* user memory: a counter the threads share
  reg,             \* user register of each task (the counter value it loaded)
  prog,            \* the user program of each task: a sequence of instructions; an
                   \* instruction [ops, ms] lets the task issue one operation of ops
                   \* on one mutex of ms
  upc,             \* user program position of each task: the next instruction of prog
  dispatched,      \* history: how often run_tasks has dispatched each task
  frame_allocator, \* FRAME_ALLOCATOR: [current, end, recycled]
  trackers,        \* the live FrameTrackers outside page tables, a Vec of their ppn
  frame_ret,       \* what the last frame_alloc returned: <<ppn>>, << >> for None
  frame_bytes,     \* physical memory: per frame its words (get_pte_array / get_bytes_array)
  frame_range,     \* history: <<l, r>>, the range init_frame_allocator was given
  quiesced,        \* history: the allocator when the last live FrameTracker was dropped
  since,           \* history: the frames allocated since then, << >> after any other drop
  streak,          \* history: no FrameTracker was dropped since quiesced was taken
  page_table,      \* a PageTable: [root_ppn, frames], frames the ppn of its FrameTrackers
  translated,      \* what the last translate returned: <<bits>>, << >> for None or dropped
  slices,          \* what the last translated_byte_buffer returned: [ppn, lo, hi] each,
                   \* << >> once dropped
  mmap_ret,        \* what the last sys_mmap returned
  munmap_ret,      \* what the last sys_munmap returned
  areas,           \* MemorySet.areas: the framed segments sys_mmap inserted, each its
                   \* vpn range and data_frames, the frame it owns per vpn
  mapped,          \* history: per vpn <<ppn, flags>> of the map not yet unmapped, else << >>
  page_ops,        \* history: the number of map, unmap and sys_mmap calls so far
  mm_op,           \* history: the memory operation performed last
  mm_panic,        \* "" or the reason of a panic in the memory management
  ring,            \* the PipeRingBuffer of the pipe: [arr, head, tail, status]
  ring_borrowed,   \* the UPSafeCell of the ring buffer is borrowed by a suspended task
  io,              \* per task the read or write it is in: [op, want, data], data the
                   \* bytes read so far or the bytes to write, done the bytes written
  received,        \* history: per task the bytes its reads took from the pipe, in order
  sent,            \* history: the bytes written into the pipe, in order
  cache_queue,     \* BlockCacheManager.queue: per entry [block_id, cache, modified] of
                   \* the BlockCache and handles, the Arcs of it that callers hold
  device,          \* the block device: the content of every block
  cache_panic,     \* "" or the reason of a panic in the block cache
  latest,          \* history: per block the content last written to it through the cache
  cache_op,        \* history: the block cache operation performed last
  cache_io,        \* history: the read_block and write_block calls of that operation
  cache_ops,       \* history: the number of operations so far
  bitmap,          \* the blocks of a Bitmap: per block 64 words, a word the set of its set bits
  bitmap_panic,    \* "" or the reason of a panic in Bitmap
  bitmap_op,       \* history: the last call of the Bitmap and what it returned
  bitmap_prev,     \* history: the blocks before that call
  bitmap_ops,      \* history: the number of calls so far
  root_inode,      \* the DiskInode of the root directory: size in bytes and data, the
                   \* DirEntry records [name, inode_id] its blocks hold
  dir_op,          \* history: the last call on the root Inode and what it returned
  dir_prev,        \* history: root_inode before that call
  dir_ops,         \* history: the number of calls so far
  copied           \* the last struct a system call stored into user memory: [op, ptr, src,
                   \* dst], src the bytes of the kernel struct, dst the user bytes from ptr
                   \* on after the call; << >> before

schedVars == <<task_status, ready_queue, current, stride, priority>>
syscallVars == <<kpc, kmx, ret>>
procVars == <<mutex_list, available, allocation, need, deadlock_detection_enabled>>
histVars == <<held, discipline, lock_log, wake_log, dispatched>>
userVars == <<counter, reg, prog>>

\* the variables of the other parts of the model, which the kernel's scheduling and
\* synchronisation leave alone
detectVars == <<banker, verdict>>
treeVars == <<pid, parent, children, exit_code, out, pid_allocator, fd_table>>
frameVars == <<frame_allocator, trackers, frame_ret, frame_bytes, frame_range, quiesced,
               since, streak>>
pageVars == <<page_table, translated, slices, mmap_ret, munmap_ret, areas, mapped, page_ops>>
mmVars == <<frameVars, pageVars, mm_op, mm_panic>>
pipeVars == <<ring, ring_borrowed, io, received, sent>>
cacheVars == <<cache_queue, device, cache_panic, latest, cache_op, cache_io, cache_ops>>
bitmapVars == <<bitmap, bitmap_panic, bitmap_op, bitmap_prev, bitmap_ops>>
dirVars == <<root_inode, dir_op, dir_prev, dir_ops>>
storageVars == <<cacheVars, bitmapVars, dirVars, copied>>
fileVars == <<pipeVars, storageVars>>
laterVars == <<detectVars, mmVars, fileVars>>
otherVars == <<laterVars, treeVars>>


\* the variables of the scheduler, the processes and the synchronisation
kernelVars == <<schedVars, syscallVars, procVars, histVars, userVars, upc, last_call,
                panicked, treeVars>>

\* the variables the memory management leaves alone
outsideVars == <<detectVars, kernelVars, fileVars>>

vars == <<kernelVars, laterVars>>

----------------------------------------------------------------------------
(* Ready queue and processor *)

\* VecDeque::remove(i), i counted from 0
VecRemove(q, i) == SubSeq(q, 1, i) \o SubSeq(q, i + 2, Len(q))

\* the initial value of min_stride in TaskManager::fetch, 0x7FFF_FFFF
MIN_STRIDE_INIT == U64(2147483647)

\* TaskManager::fetch, the scan of the ready queue; idx and min_index count from 0
RECURSIVE FetchScan(_, _, _, _, _, _)
FetchScan(queue, status, strd, idx, min_index, min_stride) ==
  IF idx >= Len(queue)
  THEN min_index
  ELSE LET task == queue[idx + 1] IN
       IF status[task] = "Ready" /\ U64Lt(strd[task], min_stride)
       THEN FetchScan(queue, status, strd, idx + 1, idx, strd[task])
       ELSE FetchScan(queue, status, strd, idx + 1, min_index, min_stride)

\* TaskManager::fetch: the task taken (NoTask for None), the queue and the strides after it
fetch(queue, status, strd, prio) ==
  LET min_index == FetchScan(queue, status, strd, 0, 0, MIN_STRIDE_INIT) IN
  IF min_index < Len(queue)
  THEN LET task == queue[min_index + 1] IN
       [task |-> task,
        queue |-> VecRemove(queue, min_index),
        stride |-> [strd EXCEPT ![task] = U64Add(@, BIG_STRIDE \div prio[task])]]
  ELSE [task |-> NoTask, queue |-> queue, stride |-> strd]

\* an add that pushes the task twice
add_task_twice(queue, task) == Append(Append(queue, task), task)

\* TaskManager::add
add_task(queue, task) == Append(queue, task)

----------------------------------------------------------------------------
(* Context switches out of the running task (task/mod.rs) *)

\* a suspend that re-queues the task without taking it out of the processor's slot
suspend_without_take_current(t) ==
  /\ task_status' = [task_status EXCEPT ![t] = "Ready"]
  /\ ready_queue' = add_task(ready_queue, t)
  /\ UNCHANGED <<current, stride, priority>>

\* suspend_current_and_run_next: the running task goes to the back of the ready queue
suspend_current_and_run_next(t) ==
  /\ task_status' = [task_status EXCEPT ![t] = "Ready"]
  /\ ready_queue' = add_task(ready_queue, t)
  /\ current' = NoTask
  /\ UNCHANGED <<stride, priority>>

\* block_current_and_run_next: the running task leaves the processor and enters no queue
block_current_and_run_next(t) ==
  /\ task_status' = [task_status EXCEPT ![t] = "Blocked"]
  /\ current' = NoTask
  /\ UNCHANGED <<ready_queue, stride, priority>>

\* the running task t is in user mode
InUser(t) == panicked = "" /\ current = t /\ t # NoTask /\ kpc[t] = "user"

\* the running task t issues its next instruction, which allows the operation op;
\* arg is the argument t passes
Issues(t, op, arg) ==
  /\ InUser(t)
  /\ upc[t] <= Len(prog[t])
  /\ op \in prog[t][upc[t]].ops
  /\ upc' = [upc EXCEPT ![t] = @ + 1]
  /\ last_call' = <<op, t, arg>>

\* the arguments the instruction that t issues allows
Args(t) == prog[t][upc[t]].ms

\* run_tasks, one turn of the idle loop (the model dispatches a task at most
\* MaxDispatch times)
run_tasks ==
  /\ panicked = ""
  /\ current = NoTask
  /\ LET f == fetch(ready_queue, task_status, stride, priority) IN
     /\ f.task # NoTask
     /\ dispatched[f.task] < MaxDispatch
     /\ ready_queue' = f.queue
     /\ stride' = f.stride
     /\ task_status' = [task_status EXCEPT ![f.task] = "Running"]
     /\ current' = f.task
     /\ dispatched' = [dispatched EXCEPT ![f.task] = @ + 1]
  /\ UNCHANGED <<priority, syscallVars, procVars, held, discipline, lock_log, wake_log,
                 userVars, upc, last_call, panicked, otherVars>>

\* run_tasks, one turn of the idle loop, in the runs without an end: the history of
\* the dispatches is not kept
run_tasks_on ==
  /\ panicked = ""
  /\ current = NoTask
  /\ LET f == fetch(ready_queue, task_status, stride, priority) IN
     /\ f.task # NoTask
     /\ ready_queue' = f.queue
     /\ stride' = f.stride
     /\ task_status' = [task_status EXCEPT ![f.task] = "Running"]
     /\ current' = f.task
  /\ UNCHANGED <<priority, syscallVars, procVars, histVars, userVars, upc, last_call,
                 panicked, otherVars>>

\* sys_yield
sys_yield(t) ==
  /\ Issues(t, "yield", 0)
  /\ suspend_current_and_run_next(t)
  /\ ret' = [ret EXCEPT ![t] = 0]
  /\ UNCHANGED <<kpc, kmx, procVars, histVars, userVars, panicked, otherVars>>

\* sys_set_priority(prio)
sys_set_priority(t, prio) ==
  /\ Issues(t, "set_priority", prio)
  /\ prio \in Args(t)
  /\ IF prio <= 1
       THEN /\ ret' = [ret EXCEPT ![t] = -1]
            /\ UNCHANGED priority
       ELSE /\ priority' = [priority EXCEPT ![t] = prio]
            /\ ret' = [ret EXCEPT ![t] = prio]
  /\ UNCHANGED <<task_status, ready_queue, current, stride, kpc, kmx, procVars, histVars,
                 userVars, panicked, otherVars>>

\* the timer interrupt arrives while t runs in user mode
timer_interrupt(t) ==
  /\ InUser(t)
  /\ suspend_current_and_run_next(t)
  /\ UNCHANGED <<syscallVars, procVars, histVars, userVars, upc, last_call, panicked, otherVars>>

\* the pid of the idle (init) process, and the task that is INITPROC
IDLE_PID == 0
INITPROC == 1

\* a reparenting that hands the children to INITPROC and keeps the handles in the
\* exiting task's own list
reparent_without_clear(t) ==
  /\ parent' = [c \in Tasks |->
                  IF \E k \in 1..Len(children[t]) : children[t][k] = c
                  THEN INITPROC ELSE parent[c]]
  /\ children' = [children EXCEPT ![INITPROC] = @ \o children[t]]

\* a reparenting that moves the handles and leaves the children's parent as it was
reparent_without_parent(t) ==
  /\ UNCHANGED parent
  /\ children' = [[children EXCEPT ![INITPROC] = @ \o children[t]] EXCEPT ![t] = <<>>]

\* exit_current_and_run_next: every child of t gets INITPROC as its parent and is
\* pushed on INITPROC's children list; then t's children list is cleared
reparent_children(t) ==
  /\ parent' = [c \in Tasks |->
                  IF \E k \in 1..Len(children[t]) : children[t][k] = c
                  THEN INITPROC ELSE parent[c]]
  /\ children' = [[children EXCEPT ![INITPROC] = @ \o children[t]] EXCEPT ![t] = <<>>]

\* sys_exit -> exit_current_and_run_next.  The exit code is the instruction's argument
\* (0 when it names none).  The task with pid IDLE_PID panics; any other task becomes
\* a zombie, and its children move to the end of INITPROC's children list.
sys_exit(t) ==
  \E code \in (IF InUser(t) /\ upc[t] <= Len(prog[t]) /\ Args(t) # {} THEN Args(t) ELSE {0}) :
    /\ Issues(t, "exit", code)
    /\ current' = NoTask
    /\ IF pid[t] = IDLE_PID
       THEN /\ panicked' = "All applications completed!"
            /\ UNCHANGED <<task_status, exit_code, parent, children>>
       ELSE /\ task_status' = [task_status EXCEPT ![t] = "Zombie"]
            /\ exit_code' = [exit_code EXCEPT ![t] = code]
            /\ reparent_children(t)
            /\ UNCHANGED panicked
    /\ UNCHANGED <<ready_queue, stride, priority, syscallVars, procVars, histVars, userVars,
                   pid, out, pid_allocator, fd_table, laterVars>>

----------------------------------------------------------------------------
(* Mutexes (sync/mutex.rs).  A mutex object is a record: blocking tells    *)
(* MutexBlocking from MutexSpin, locked is its flag, wait_queue its queue  *)
(* (always empty for a MutexSpin).  The mutex with id m is mutex_list[m+1].*)

MutexSpin_new == [blocking |-> FALSE, locked |-> FALSE, wait_queue |-> <<>>]
MutexBlocking_new == [blocking |-> TRUE, locked |-> FALSE, wait_queue |-> <<>>]

\* UPSafeCell::exclusive_access on a cell that is (held) or is not already borrowed
exclusive_access(held_already) == IF held_already THEN "BorrowMutError" ELSE "ok"

\* wakeup_task: the task becomes Ready and joins the ready queue
wakeup_task(w) ==
  /\ task_status' = [task_status EXCEPT ![w] = "Ready"]
  /\ ready_queue' = add_task(ready_queue, w)

\* usize subtraction.  The kernel is built with the release profile, in which integer
\* arithmetic wraps; a wrapped value v is kept as the negative number v - 2^64.
usize_sub(a, b) == a - b

\* the bookkeeping of an acquisition by thread t of mutex m, and the return of lock:
\* allocation += 1, available -= 1.  nd is the need matrix at that point, ml the
\* mutex list when the call returns.
acquire(t, m, nd, ml) ==
  /\ allocation' = [allocation EXCEPT ![t][m] = @ + 1]
  /\ available' = [available EXCEPT ![m] = usize_sub(@, 1)]
  /\ need' = nd
  /\ mutex_list' = ml
  /\ kpc' = [kpc EXCEPT ![t] = "user"]
  /\ ret' = [ret EXCEPT ![t] = 0]
  /\ held' = [held EXCEPT ![t] = @ \cup {m}]
  /\ UNCHANGED <<schedVars, kmx, deadlock_detection_enabled, discipline, lock_log, wake_log,
                 dispatched, userVars, panicked, otherVars>>

\* a spin lock that takes the mutex whether or not it is held
MutexSpin_lock_barging(t, m, nd) ==
  acquire(t, m, nd, [mutex_list EXCEPT ![m + 1].locked = TRUE])

\* MutexSpin::lock, one turn of its loop; nd is the need matrix on entry to the turn
MutexSpin_lock(t, m, nd) ==
  IF mutex_list[m + 1].locked
  THEN /\ need' = [nd EXCEPT ![t][m] = @ + 1]
       /\ suspend_current_and_run_next(t)
       /\ kpc' = [kpc EXCEPT ![t] = "MutexSpin_lock"]
       /\ kmx' = [kmx EXCEPT ![t] = m]
       /\ UNCHANGED <<ret, mutex_list, available, allocation, deadlock_detection_enabled,
                      histVars, userVars, panicked, otherVars>>
  ELSE acquire(t, m, nd, [mutex_list EXCEPT ![m + 1].locked = TRUE])

\* a blocking lock that takes the mutex whether or not it is held
MutexBlocking_lock_barging(t, m) ==
  acquire(t, m, need, [mutex_list EXCEPT ![m + 1].locked = TRUE])

\* MutexBlocking::lock up to its return or to block_current_and_run_next
MutexBlocking_lock(t, m) ==
  IF mutex_list[m + 1].locked
  THEN /\ mutex_list' = [mutex_list EXCEPT ![m + 1].wait_queue = Append(@, t)]
       /\ need' = [need EXCEPT ![t][m] = @ + 1]
       /\ block_current_and_run_next(t)
       /\ kpc' = [kpc EXCEPT ![t] = "MutexBlocking_lock"]
       /\ kmx' = [kmx EXCEPT ![t] = m]
       /\ lock_log' = [lock_log EXCEPT ![m] = Append(@, t)]
       /\ UNCHANGED <<ret, available, allocation, deadlock_detection_enabled, held,
                      discipline, wake_log, dispatched, userVars, panicked, otherVars>>
  ELSE acquire(t, m, need, [mutex_list EXCEPT ![m + 1].locked = TRUE])

\* sys_mutex_lock.  With detection enabled the handler still holds the exclusive
\* borrow of the process's inner cell when deadlock_detected asks for it again.
sys_mutex_lock(t, m) ==
  /\ Issues(t, "lock", m)
  /\ m \in Args(t)
  /\ m < Len(mutex_list)
  /\ IF deadlock_detection_enabled /\ exclusive_access(TRUE) # "ok"
     THEN /\ panicked' = exclusive_access(TRUE)
          /\ UNCHANGED <<schedVars, syscallVars, procVars, histVars, userVars, otherVars>>
     ELSE IF mutex_list[m + 1].blocking
          THEN MutexBlocking_lock(t, m)
          ELSE MutexSpin_lock(t, m, need)

\* a resumed spin lock that takes the mutex without testing the flag again
MutexSpin_lock_resume_untested(t) ==
  /\ panicked = ""
  /\ current = t
  /\ t # NoTask
  /\ kpc[t] = "MutexSpin_lock"
  /\ UNCHANGED <<upc, last_call>>
  /\ acquire(t, kmx[t], [need EXCEPT ![t][kmx[t]] = @ - 1],
             [mutex_list EXCEPT ![kmx[t] + 1].locked = TRUE])

\* MutexSpin::lock resumes after suspend_current_and_run_next: need -= 1, next turn
MutexSpin_lock_resume(t) ==
  /\ panicked = ""
  /\ current = t
  /\ t # NoTask
  /\ kpc[t] = "MutexSpin_lock"
  /\ UNCHANGED <<upc, last_call>>
  /\ MutexSpin_lock(t, kmx[t], [need EXCEPT ![t][kmx[t]] = @ - 1])

\* MutexBlocking::lock resumes after block_current_and_run_next: need -= 1, bookkeeping
MutexBlocking_lock_resume(t) ==
  /\ panicked = ""
  /\ current = t
  /\ t # NoTask
  /\ kpc[t] = "MutexBlocking_lock"
  /\ UNCHANGED <<upc, last_call>>
  /\ acquire(t, kmx[t], [need EXCEPT ![t][kmx[t]] = @ - 1], mutex_list)

\* a pop that takes the newest element of a non-empty queue
pop_back(q) == [item |-> q[Len(q)], rest |-> SubSeq(q, 1, Len(q) - 1)]

\* VecDeque::pop_front on a non-empty queue
pop_front(q) == [item |-> Head(q), rest |-> Tail(q)]

\* sys_mutex_unlock -> MutexSpin::unlock or MutexBlocking::unlock
sys_mutex_unlock(t, m) ==
  /\ Issues(t, "unlock", m)
  /\ m \in Args(t)
  /\ m < Len(mutex_list)
  /\ LET mx == mutex_list[m + 1] IN
     IF ~mx.blocking
     THEN /\ mutex_list' = [mutex_list EXCEPT ![m + 1].locked = FALSE]
          /\ ret' = [ret EXCEPT ![t] = 0]
          /\ held' = [held EXCEPT ![t] = @ \ {m}]
          /\ discipline' = (discipline /\ m \in held[t])
          /\ UNCHANGED <<schedVars, wake_log, panicked>>
     ELSE IF ~mx.locked
     THEN /\ panicked' = "assertion failed: mutex_inner.locked"
          /\ UNCHANGED <<schedVars, mutex_list, ret, held, discipline, wake_log>>
     ELSE IF mx.wait_queue # <<>>
     THEN LET waking_task == pop_front(mx.wait_queue).item IN
          /\ mutex_list' = [mutex_list EXCEPT ![m + 1].wait_queue = pop_front(@).rest]
          /\ wakeup_task(waking_task)
          /\ wake_log' = [wake_log EXCEPT ![m] = Append(@, waking_task)]
          /\ ret' = [ret EXCEPT ![t] = 0]
          /\ held' = [held EXCEPT ![t] = @ \ {m}]
          /\ discipline' = (discipline /\ m \in held[t])
          /\ UNCHANGED <<current, stride, priority, panicked>>
     ELSE /\ mutex_list' = [mutex_list EXCEPT ![m + 1].locked = FALSE]
          /\ ret' = [ret EXCEPT ![t] = 0]
          /\ held' = [held EXCEPT ![t] = @ \ {m}]
          /\ discipline' = (discipline /\ m \in held[t])
          /\ UNCHANGED <<schedVars, wake_log, panicked>>
  /\ UNCHANGED <<kpc, kmx, available, allocation, need, deadlock_detection_enabled,
                 lock_log, dispatched, userVars, otherVars>>

\* sys_mutex_create: no slot is ever vacated, so the new mutex is pushed
sys_mutex_create(t, blocking) ==
  /\ Issues(t, "mutex_create", IF blocking THEN 1 ELSE 0)
  /\ (IF blocking THEN 1 ELSE 0) \in Args(t)
  /\ Len(mutex_list) < Cardinality(MutexIds)
  /\ mutex_list' = Append(mutex_list, IF blocking THEN MutexBlocking_new ELSE MutexSpin_new)
  /\ ret' = [ret EXCEPT ![t] = Len(mutex_list)]
  /\ UNCHANGED <<schedVars, kpc, kmx, available, allocation, need,
                 deadlock_detection_enabled, histVars, userVars, panicked, otherVars>>

\* sys_enable_deadlock_detect
sys_enable_deadlock_detect(t, enabled) ==
  /\ Issues(t, "enable_deadlock_detect", enabled)
  /\ enabled \in Args(t)
  /\ IF enabled # 0 /\ enabled # 1
     THEN /\ ret' = [ret EXCEPT ![t] = -1]
          /\ UNCHANGED deadlock_detection_enabled
     ELSE /\ deadlock_detection_enabled' = (enabled = 1)
          /\ ret' = [ret EXCEPT ![t] = 0]
  /\ UNCHANGED <<schedVars, kpc, kmx, mutex_list, available, allocation, need, histVars,
                 userVars, panicked, otherVars>>

\* sys_thread_create: the new thread takes the lowest unused tid (the thread with tid i
\* is task i + 1), is Ready and joins the ready queue
sys_thread_create(t) ==
  /\ Issues(t, "thread_create", 0)
  /\ \E n \in Tasks :
       /\ task_status[n] = "UnInit"
       /\ \A o \in Tasks : o < n => task_status[o] # "UnInit"
       /\ task_status' = [task_status EXCEPT ![n] = "Ready"]
       /\ ready_queue' = add_task(ready_queue, n)
       /\ ret' = [ret EXCEPT ![t] = n - 1]
  /\ UNCHANGED <<current, stride, priority, kpc, kmx, procVars, histVars, userVars,
                 panicked, otherVars>>

\* process_inner.tasks.len(): the threads take the tids in order (the thread with tid
\* i is task i + 1) and a slot that was cleared stays in the list
tasks_len == Cardinality({n \in Tasks : task_status[n] # "UnInit"})

\* process_inner.tasks[tid] is Some: the slot was not cleared by sys_waittid
slot_is_some(tid) == task_status[tid + 1] # "Cleared"

\* sys_waittid(tid) by the thread t
sys_waittid(t, tid) ==
  /\ Issues(t, "waittid", tid)
  /\ tid \in Args(t)
  /\ IF t - 1 = tid
     THEN /\ ret' = [ret EXCEPT ![t] = -1]
          /\ UNCHANGED <<task_status, panicked>>
     ELSE IF tid >= tasks_len
     THEN /\ panicked' = "index out of bounds"
          /\ UNCHANGED <<task_status, ret>>
     ELSE IF ~slot_is_some(tid)
     THEN /\ ret' = [ret EXCEPT ![t] = -1]
          /\ UNCHANGED <<task_status, panicked>>
     ELSE IF task_status[tid + 1] = "Zombie"
     THEN /\ task_status' = [task_status EXCEPT ![tid + 1] = "Cleared"]
          /\ ret' = [ret EXCEPT ![t] = exit_code[tid + 1]]
          /\ UNCHANGED panicked
     ELSE /\ ret' = [ret EXCEPT ![t] = -2]
          /\ UNCHANGED <<task_status, panicked>>
  /\ UNCHANGED <<ready_queue, current, stride, priority, kpc, kmx, procVars, histVars,
                 userVars, otherVars>>

\* user mode: t loads the shared counter into its register
user_load(t) ==
  /\ Issues(t, "load", 0)
  /\ reg' = [reg EXCEPT ![t] = counter]
  /\ UNCHANGED <<schedVars, syscallVars, procVars, histVars, counter, prog, panicked,
                 otherVars>>

\* user mode: t stores its register plus one into the shared counter
user_store(t) ==
  /\ Issues(t, "store", 0)
  /\ counter' = reg[t] + 1
  /\ UNCHANGED <<schedVars, syscallVars, procVars, histVars, reg, prog, panicked,
                 otherVars>>

----------------------------------------------------------------------------
(* The banker's safety test, deadlock_detected (syscall/sync.rs)           *)

Resources == 0..1

RECURSIVE Sum(_, _)
Sum(f, S) == IF S = {} THEN 0 ELSE LET x == CHOOSE y \in S : TRUE IN f[x] + Sum(f, S \ {x})

\* one pass of the loop over the processes i, i + 1, ..., num_processes - 1
RECURSIVE DetectPass(_, _, _, _, _, _)
DetectPass(b, nd, i, work, finish, made_progress) ==
  IF i >= b.num_processes
  THEN [work |-> work, finish |-> finish, made_progress |-> made_progress]
  ELSE IF ~finish[i] /\ \A j \in Resources : nd[i][j] <= work[j]
       THEN DetectPass(b, nd, i + 1,
                       [j \in Resources |-> work[j] + b.allocation[i][j]],
                       [finish EXCEPT ![i] = TRUE], TRUE)
       ELSE DetectPass(b, nd, i + 1, work, finish, made_progress)

\* the loop: a pass without progress returns true (deadlock); that test comes before
\* the test that every process has finished, which returns false
RECURSIVE DetectLoop(_, _, _, _)
DetectLoop(b, nd, work, finish) ==
  LET p == DetectPass(b, nd, 0, work, finish, FALSE) IN
  IF ~p.made_progress THEN TRUE
  ELSE IF \A i \in DOMAIN p.finish : p.finish[i] THEN FALSE
  ELSE DetectLoop(b, nd, p.work, p.finish)

deadlock_detected(b) ==
  LET procs == 0..(b.num_processes - 1)
      nd == [i \in procs |-> [j \in Resources |-> b.max[i][j] - b.allocation[i][j]]]
      avail == [j \in Resources |->
                  b.TOTAL_AVAILABLE[j] - Sum([i \in procs |-> b.allocation[i][j]], procs)]
  IN DetectLoop(b, nd, avail, [i \in procs |-> FALSE])

\* the call of deadlock_detected on the process state
call_deadlock_detected ==
  /\ verdict = <<>>
  /\ verdict' = <<deadlock_detected(banker)>>
  /\ UNCHANGED <<banker, kernelVars, mmVars, fileVars>>

\* a process without threads and resources in use
NoProcess ==
  [num_processes |-> 0, TOTAL_AVAILABLE |-> [j \in Resources |-> 0],
   allocation |-> <<>>, max |-> <<>>]

----------------------------------------------------------------------------
(* User programs *)

I(op, ms) == [ops |-> {op}, ms |-> ms]
Lock(m) == I("lock", {m})
Unlock(m) == I("unlock", {m})
Exit == I("exit", {})
Yield == I("yield", {})
ThreadCreate == I("thread_create", {})
CreateBlocking == I("mutex_create", {1})
CreateSpin == I("mutex_create", {0})
Load == I("load", {})
Store == I("store", {})
\* a system call the thread chooses freely
Free == [ops |-> {"lock", "unlock", "yield"}, ms |-> MutexIds]

RECURSIVE Repeat(_, _)
Repeat(p, n) == IF n = 0 THEN <<>> ELSE p \o Repeat(p, n - 1)

----------------------------------------------------------------------------
(* Processes: fork, spawn, waitpid (syscall/process.rs, task/task.rs) and  *)
(* the pid allocator (task/id.rs).  A task without a TCB has status UnInit *)

\* RecycleAllocator::alloc: the id and the allocator after it
RecycleAllocator_alloc(a) ==
  IF a.recycled # <<>>
  THEN [id |-> a.recycled[Len(a.recycled)],
        allocator |-> [a EXCEPT !.recycled = SubSeq(@, 1, Len(@) - 1)]]
  ELSE [id |-> a.current, allocator |-> [a EXCEPT !.current = @ + 1]]

\* RecycleAllocator::dealloc: its two assertions hold
RecycleAllocator_dealloc_ok(a, id) ==
  id < a.current /\ \A k \in 1..Len(a.recycled) : a.recycled[k] # id

\* RecycleAllocator::dealloc when its assertions hold
RecycleAllocator_dealloc(a, id) == [a EXCEPT !.recycled = Append(@, id)]

\* the number of times task c occurs in the sequence q
Occurrences(q, c) == Cardinality({k \in 1..Len(q) : q[k] = c})

\* Arc::strong_count of the TCB of task c: the handles in the ready queue, the
\* processor's slot, the children lists and the mutex wait queues
strong_count(c) ==
  Occurrences(ready_queue, c)
  + (IF current = c THEN 1 ELSE 0)
  + Sum([t \in Tasks |-> Occurrences(children[t], c)], Tasks)
  + Sum([m \in 1..Len(mutex_list) |-> Occurrences(mutex_list[m].wait_queue, c)],
        1..Len(mutex_list))

\* the fd table of a new process: standard input, standard output and standard error
StdioTable == <<"stdin", "stdout", "stdout">>

\* the running task t issues its next instruction, a call of op with argument arg
\* that creates task n, which starts at the first instruction of its program
IssuesCreating(t, op, arg, n) ==
  /\ InUser(t)
  /\ upc[t] <= Len(prog[t])
  /\ op \in prog[t][upc[t]].ops
  /\ upc' = [upc EXCEPT ![t] = @ + 1, ![n] = 1]
  /\ last_call' = <<op, t, arg>>

\* the task that gets the next TCB: the model numbers TCBs by their slot in Tasks
FreeSlot(n) ==
  /\ task_status[n] = "UnInit"
  /\ \A o \in Tasks : o < n => task_status[o] # "UnInit"

\* a new TCB n, child of t, with the program code: Ready, at the end of t's children
\* list and of the ready queue; the return value of t's call is the new pid
new_child(t, n, code) ==
  LET a == RecycleAllocator_alloc(pid_allocator) IN
  /\ pid_allocator' = a.allocator
  /\ pid' = [pid EXCEPT ![n] = a.id]
  /\ task_status' = [task_status EXCEPT ![n] = "Ready"]
  /\ parent' = [parent EXCEPT ![n] = t]
  /\ children' = [children EXCEPT ![t] = Append(@, n), ![n] = <<>>]
  /\ exit_code' = [exit_code EXCEPT ![n] = 0]
  /\ stride' = [stride EXCEPT ![n] = U64(0)]
  /\ priority' = [priority EXCEPT ![n] = DEFAULT_PRIORITY]
  /\ prog' = [prog EXCEPT ![n] = code]
  /\ ready_queue' = add_task(ready_queue, n)
  /\ ret' = [ret EXCEPT ![t] = a.id, ![n] = 0]
  /\ UNCHANGED <<current, kpc, kmx, procVars, histVars, counter, reg, panicked, laterVars>>

\* sys_fork -> TaskControlBlock::fork: the child runs the code the instruction names
\* for it (the branch taken where fork returned 0), else the rest of t's program; its
\* address space is a copy of t's
sys_fork(t) ==
  /\ \E n \in Tasks :
       /\ FreeSlot(n)
       /\ IssuesCreating(t, "fork", 0, n)
       /\ new_child(t, n, IF "child" \in DOMAIN prog[t][upc[t]]
                          THEN prog[t][upc[t]].child
                          ELSE SubSeq(prog[t], upc[t] + 1, Len(prog[t])))
       /\ out' = [out EXCEPT ![n] = out[t]]
       /\ fd_table' = [fd_table EXCEPT ![n] = fd_table[t]]

\* the program of the application with the given name
AppCode(name) == <<I("exit", {name})>>

\* sys_spawn: a name below 1 names no application
sys_spawn(t, name) ==
  /\ InUser(t) /\ upc[t] <= Len(prog[t])
  /\ name \in Args(t)
  /\ IF name < 1
     THEN /\ Issues(t, "spawn", name)
          /\ ret' = [ret EXCEPT ![t] = -1]
          /\ UNCHANGED <<schedVars, kpc, kmx, procVars, histVars, userVars, panicked,
                         otherVars>>
     ELSE \E n \in Tasks :
            /\ FreeSlot(n)
            /\ IssuesCreating(t, "spawn", name, n)
            /\ new_child(t, n, AppCode(name))
            /\ out' = [out EXCEPT ![n] = 0]
            /\ fd_table' = [fd_table EXCEPT ![n] = StdioTable]

\* a search that takes the last zombie child of t that matches p
LastZombie(t, p) ==
  LET ks == {k \in 1..Len(children[t]) :
               /\ task_status[children[t][k]] = "Zombie"
               /\ (p = -1 \/ p = pid[children[t][k]])} IN
  IF ks = {} THEN 0 ELSE CHOOSE k \in ks : \A l \in ks : k >= l

\* a search that takes the first child of t that matches p, zombie or not
FirstMatching(t, p) ==
  LET ks == {k \in 1..Len(children[t]) : p = -1 \/ p = pid[children[t][k]]} IN
  IF ks = {} THEN 0 ELSE CHOOSE k \in ks : \A l \in ks : k <= l

\* the index from 1 of the first child of t that is a zombie and matches p; 0 if none
FirstZombie(t, p) ==
  LET ks == {k \in 1..Len(children[t]) :
               /\ task_status[children[t][k]] = "Zombie"
               /\ (p = -1 \/ p = pid[children[t][k]])} IN
  IF ks = {} THEN 0 ELSE CHOOSE k \in ks : \A l \in ks : k <= l

\* sys_waitpid; the removed child's TCB is dropped when its handle was the last one
sys_waitpid(t, p) ==
  /\ Issues(t, "waitpid", p)
  /\ p \in Args(t)
  /\ LET idx == FirstZombie(t, p) IN
     IF ~\E k \in 1..Len(children[t]) : p = -1 \/ p = pid[children[t][k]]
     THEN /\ ret' = [ret EXCEPT ![t] = -1]
          /\ UNCHANGED <<task_status, panicked, treeVars>>
     ELSE IF idx = 0
     THEN /\ ret' = [ret EXCEPT ![t] = -2]
          /\ UNCHANGED <<task_status, panicked, treeVars>>
     ELSE LET child == children[t][idx] IN
          /\ children' = [children EXCEPT ![t] = VecRemove(@, idx - 1)]
          /\ out' = [out EXCEPT ![t] = exit_code[child]]
          /\ ret' = [ret EXCEPT ![t] = pid[child]]
          /\ UNCHANGED pid
          /\ IF strong_count(child) > 1
             THEN UNCHANGED <<task_status, parent, exit_code, pid_allocator, fd_table, panicked>>
             ELSE IF ~RecycleAllocator_dealloc_ok(pid_allocator, pid[child])
             THEN /\ panicked' = "id has been deallocated!"
                  /\ UNCHANGED <<task_status, parent, exit_code, pid_allocator, fd_table>>
             ELSE /\ pid_allocator' = RecycleAllocator_dealloc(pid_allocator, pid[child])
                  /\ task_status' = [task_status EXCEPT ![child] = "UnInit"]
                  /\ parent' = [parent EXCEPT ![child] = NoTask]
                  /\ exit_code' = [exit_code EXCEPT ![child] = 0]
                  /\ fd_table' = [fd_table EXCEPT ![child] = <<>>]
                  /\ UNCHANGED panicked
  /\ UNCHANGED <<ready_queue, current, stride, priority, kpc, kmx, procVars, histVars,
                 userVars, laterVars>>

----------------------------------------------------------------------------
(* Pipes (fs/pipe.rs) and the file system calls (syscall/fs.rs).  The     *)
(* model has one pipe; a slot of an fd table that holds one of its ends   *)
(* is "read_end" or "write_end"                                           *)

RING_BUFFER_SIZE == 32

\* PipeRingBuffer::new
PipeRingBuffer_new ==
  [arr |-> [i \in 0..(RING_BUFFER_SIZE - 1) |-> 0], head |-> 0, tail |-> 0, status |-> "Empty"]

\* PipeRingBuffer::write_byte
write_byte(rb, byte) ==
  LET tail == (rb.tail + 1) % RING_BUFFER_SIZE IN
  [arr |-> [rb.arr EXCEPT ![rb.tail] = byte],
   head |-> rb.head,
   tail |-> tail,
   status |-> IF tail = rb.head THEN "Full" ELSE "Normal"]

\* PipeRingBuffer::read_byte: the ring buffer afterwards and the byte
read_byte(rb) ==
  LET head == (rb.head + 1) % RING_BUFFER_SIZE IN
  [rb |-> [arr |-> rb.arr,
           head |-> head,
           tail |-> rb.tail,
           status |-> IF head = rb.tail THEN "Empty" ELSE "Normal"],
   c |-> rb.arr[rb.head]]

\* a count that takes the distance from head to tail and ignores the status
available_read_by_distance(rb) ==
  (rb.tail + RING_BUFFER_SIZE - rb.head) % RING_BUFFER_SIZE

\* PipeRingBuffer::available_read
available_read(rb) ==
  IF rb.status = "Empty" THEN 0
  ELSE IF rb.tail > rb.head THEN rb.tail - rb.head
  ELSE rb.tail + RING_BUFFER_SIZE - rb.head

\* PipeRingBuffer::available_write
available_write(rb) ==
  IF rb.status = "Full" THEN 0 ELSE RING_BUFFER_SIZE - available_read(rb)

\* Arc::strong_count of the write end: the fd table slots that hold it and the
\* clones held by the sys_write calls in progress
write_end_count ==
  Sum([t \in Tasks |-> Occurrences(fd_table[t], "write_end")
                        + (IF kpc[t] = "Pipe_write" THEN 1 ELSE 0)], Tasks)

\* PipeRingBuffer::all_write_ends_closed: the weak reference cannot be upgraded
all_write_ends_closed == write_end_count = 0

\* the for loop of Pipe::read, n turns: the ring buffer afterwards and the bytes read
RECURSIVE read_bytes(_, _)
read_bytes(rb, n) ==
  IF n = 0 THEN [rb |-> rb, bytes |-> <<>>]
  ELSE LET r == read_byte(rb)
           rest == read_bytes(r.rb, n - 1) IN
       [rb |-> rest.rb, bytes |-> <<r.c>> \o rest.bytes]

\* the for loop of Pipe::write over the bytes given
RECURSIVE write_bytes(_, _)
write_bytes(rb, bytes) ==
  IF bytes = <<>> THEN rb ELSE write_bytes(write_byte(rb, Head(bytes)), Tail(bytes))

\* the lesser of two numbers
Min(a, b) == IF a < b THEN a ELSE b

\* a read that returns what it has when the buffer is empty, writers or not
Pipe_read_without_wait(rb, closed, want, got) ==
  LET n == Min(available_read(rb), want - Len(got))
      r == read_bytes(rb, n) IN
  [rb |-> r.rb, got |-> got \o r.bytes, returns |-> TRUE]

\* Pipe::read from the top of its loop, got the bytes read so far (already_read of
\* them), closed what all_write_ends_closed gives: the ring buffer and the bytes when
\* it returns already_read (returns) or calls suspend_current_and_run_next
RECURSIVE Pipe_read(_, _, _, _)
Pipe_read(rb, closed, want, got) ==
  LET loop_read == available_read(rb)
      n == Min(loop_read, want - Len(got))
      r == read_bytes(rb, n) IN
  IF loop_read = 0 THEN [rb |-> rb, got |-> got, returns |-> closed]
  ELSE IF Len(got) = want THEN [rb |-> rb, got |-> got, returns |-> TRUE]
  ELSE IF Len(got) + n = want THEN [rb |-> r.rb, got |-> got \o r.bytes, returns |-> TRUE]
  ELSE Pipe_read(r.rb, closed, want, got \o r.bytes)

\* a write that takes the whole buffer for free
Pipe_write_overrun(rb, buf, already) ==
  [rb |-> write_bytes(rb, SubSeq(buf, already + 1, Len(buf))), already |-> Len(buf),
   returns |-> TRUE]

\* Pipe::write from the top of its loop, already the number of bytes of buf written
\* so far (already_write)
RECURSIVE Pipe_write(_, _, _)
Pipe_write(rb, buf, already) ==
  LET loop_write == available_write(rb)
      n == Min(loop_write, Len(buf) - already)
      w == write_bytes(rb, SubSeq(buf, already + 1, already + n)) IN
  IF loop_write = 0 THEN [rb |-> rb, already |-> already, returns |-> FALSE]
  ELSE IF already = Len(buf) THEN [rb |-> rb, already |-> already, returns |-> TRUE]
  ELSE IF already + n = Len(buf) THEN [rb |-> w, already |-> already + n, returns |-> TRUE]
  ELSE Pipe_write(w, buf, already + n)

\* what the file system calls leave alone
fsFrame == <<kmx, procVars, histVars, userVars, pid, parent, children, exit_code, out,
             pid_allocator, detectVars, mmVars, storageVars>>

\* drop(ring_buffer); suspend_current_and_run_next(); continue
drop_and_suspend(t, at) ==
  /\ ring_borrowed' = FALSE
  /\ suspend_current_and_run_next(t)
  /\ kpc' = [kpc EXCEPT ![t] = at]

\* Pipe::read of task t from the top of the loop until it returns or suspends
call_Pipe_read(t, want, got) ==
  LET r == Pipe_read(ring, all_write_ends_closed, want, got) IN
  IF exclusive_access(ring_borrowed) # "ok"
  THEN /\ panicked' = "BorrowMutError"
       /\ UNCHANGED <<schedVars, kpc, ret, pipeVars>>
  ELSE /\ ring' = r.rb
       /\ received' = [received EXCEPT ![t] = @ \o SubSeq(r.got, Len(got) + 1, Len(r.got))]
       /\ io' = [io EXCEPT ![t] = [op |-> "read", want |-> want, data |-> r.got,
                                   done |-> Len(r.got)]]
       /\ IF r.returns
          THEN /\ ret' = [ret EXCEPT ![t] = Len(r.got)]
               /\ kpc' = [kpc EXCEPT ![t] = "user"]
               /\ UNCHANGED <<schedVars, ring_borrowed>>
          ELSE /\ drop_and_suspend(t, "Pipe_read")
               /\ UNCHANGED ret
       /\ UNCHANGED <<sent, panicked>>

\* Pipe::write of task t from the top of the loop until it returns or suspends
call_Pipe_write(t, buf, already) ==
  LET w == Pipe_write(ring, buf, already) IN
  IF exclusive_access(ring_borrowed) # "ok"
  THEN /\ panicked' = "BorrowMutError"
       /\ UNCHANGED <<schedVars, kpc, ret, pipeVars>>
  ELSE /\ ring' = w.rb
       /\ sent' = sent \o SubSeq(buf, already + 1, w.already)
       /\ io' = [io EXCEPT ![t] = [op |-> "write", want |-> Len(buf), data |-> buf,
                                   done |-> w.already]]
       /\ IF w.returns
          THEN /\ ret' = [ret EXCEPT ![t] = w.already]
               /\ kpc' = [kpc EXCEPT ![t] = "user"]
               /\ UNCHANGED <<schedVars, ring_borrowed>>
          ELSE /\ drop_and_suspend(t, "Pipe_write")
               /\ UNCHANGED ret
       /\ UNCHANGED <<received, panicked>>

\* the file in slot fd of t's table, "" when there is none
FileOf(t, fd) == IF fd < Len(fd_table[t]) THEN fd_table[t][fd + 1] ELSE ""

\* sys_read(fd, buf, len) on a pipe end or an empty slot
sys_read(t, fd, len) ==
  /\ Issues(t, "read", <<fd, len>>)
  /\ <<fd, len>> \in Args(t)
  /\ FileOf(t, fd) \in {"", "read_end", "write_end"}
  /\ IF FileOf(t, fd) # "read_end"
     THEN /\ ret' = [ret EXCEPT ![t] = -1]
          /\ UNCHANGED <<schedVars, kpc, panicked, pipeVars>>
     ELSE call_Pipe_read(t, len, <<>>)
  /\ UNCHANGED <<fd_table, fsFrame>>

\* Pipe::read goes on after suspend_current_and_run_next
Pipe_read_resume(t) ==
  /\ panicked = ""
  /\ current = t
  /\ t # NoTask
  /\ kpc[t] = "Pipe_read"
  /\ call_Pipe_read(t, io[t].want, io[t].data)
  /\ UNCHANGED <<upc, last_call, fd_table, fsFrame>>

\* sys_write(fd, buf, len) on a pipe end or an empty slot; bytes is what buf holds
sys_write(t, fd, bytes) ==
  /\ Issues(t, "write", <<fd, bytes>>)
  /\ <<fd, bytes>> \in Args(t)
  /\ FileOf(t, fd) \in {"", "read_end", "write_end"}
  /\ IF FileOf(t, fd) # "write_end"
     THEN /\ ret' = [ret EXCEPT ![t] = -1]
          /\ UNCHANGED <<schedVars, kpc, panicked, pipeVars>>
     ELSE call_Pipe_write(t, bytes, 0)
  /\ UNCHANGED <<fd_table, fsFrame>>

\* Pipe::write goes on after suspend_current_and_run_next
Pipe_write_resume(t) ==
  /\ panicked = ""
  /\ current = t
  /\ t # NoTask
  /\ kpc[t] = "Pipe_write"
  /\ call_Pipe_write(t, io[t].data, io[t].done)
  /\ UNCHANGED <<upc, last_call, fd_table, fsFrame>>

\* sys_close
sys_close(t, fd) ==
  /\ Issues(t, "close", fd)
  /\ fd \in Args(t)
  /\ IF FileOf(t, fd) = ""
     THEN /\ ret' = [ret EXCEPT ![t] = -1]
          /\ UNCHANGED fd_table
     ELSE /\ ret' = [ret EXCEPT ![t] = 0]
          /\ fd_table' = [fd_table EXCEPT ![t][fd + 1] = ""]
  /\ UNCHANGED <<schedVars, kpc, panicked, pipeVars, fsFrame>>

\* the lowest free slot of an fd table, a new one at its end if none is free
alloc_fd(table) ==
  LET free == {i \in 1..Len(table) : table[i] = ""} IN
  IF free = {} THEN Len(table) + 1 ELSE CHOOSE i \in free : \A j \in free : i <= j

\* the table with the file in slot i (counted from 1)
WithFile(table, i, file) ==
  IF i > Len(table) THEN Append(table, file) ELSE [table EXCEPT ![i] = file]

\* a pipe system call: make_pipe, the read end and the write end in fresh slots
sys_pipe(t) ==
  LET r == alloc_fd(fd_table[t])
      table == WithFile(fd_table[t], r, "read_end")
      w == alloc_fd(table) IN
  /\ Issues(t, "pipe", 0)
  /\ \A o \in Tasks : FileOf(o, 3) = "" /\ FileOf(o, 4) = ""
  /\ ring' = PipeRingBuffer_new
  /\ fd_table' = [fd_table EXCEPT ![t] = WithFile(table, w, "write_end")]
  /\ ret' = [ret EXCEPT ![t] = 0]
  /\ UNCHANGED <<schedVars, kpc, panicked, ring_borrowed, io, received, sent, fsFrame>>

\* no pipe was made
PipesIdle ==
  /\ ring = PipeRingBuffer_new
  /\ ring_borrowed = FALSE
  /\ io = [t \in Tasks |-> [op |-> "", want |-> 0, data |-> <<>>, done |-> 0]]
  /\ received = [t \in Tasks |-> <<>>]
  /\ sent = <<>>

----------------------------------------------------------------------------
(* The block cache (easy-fs/src/block_cache.rs).  The content of a block  *)
(* is one value; the model has one block device                           *)

\* the entries of the cache: 16 in the code, scaled down
BLOCK_CACHE_SIZE == 3

\* the blocks of the device
Blocks == 0..BLOCK_CACHE_SIZE

\* the contents callers write to a block
Values == {1, 2}

\* BlockCache::new: read_block into the buffer
BlockCache_new(block_id, dev) ==
  [block_id |-> block_id, cache |-> dev[block_id], modified |-> FALSE, handles |-> 0]

\* a sync that clears the flag and writes nothing
sync_without_write(e, dev) ==
  [e |-> [e EXCEPT !.modified = FALSE], dev |-> dev, io |-> <<>>]

\* BlockCache::sync: the entry, the device and the write_block calls
BlockCache_sync(e, dev) ==
  IF e.modified
  THEN [e |-> [e EXCEPT !.modified = FALSE],
        dev |-> [dev EXCEPT ![e.block_id] = e.cache],
        io |-> <<<<"write_block", e.block_id>>>>]
  ELSE [e |-> e, dev |-> dev, io |-> <<>>]

\* Arc::strong_count of an entry: the Arc in the queue and those of the callers
Arc_strong_count(e) == 1 + e.handles

\* a search that finds no entry
FindNone(q, block_id) == 0

\* queue.iter().find(|pair| pair.0 == block_id): the index from 1, 0 for None
FindBlock(q, block_id) ==
  LET ks == {k \in 1..Len(q) : q[k].block_id = block_id} IN
  IF ks = {} THEN 0 ELSE CHOOSE k \in ks : \A l \in ks : k <= l

\* a search that takes the entry at the front of the queue
FrontEntry(q) == IF q = <<>> THEN 0 ELSE 1

\* queue.iter().enumerate().find(|(_, pair)| Arc::strong_count(&pair.1) == 1)
FirstUnreferenced(q) ==
  LET ks == {k \in 1..Len(q) : Arc_strong_count(q[k]) = 1} IN
  IF ks = {} THEN 0 ELSE CHOOSE k \in ks : \A l \in ks : k <= l

\* BlockCacheManager::get_block_cache: the queue and the device afterwards, at the
\* index of the entry whose Arc is returned, io the calls of the device
BlockCacheManager_get_block_cache(q, dev, block_id) ==
  LET found == FindBlock(q, block_id)
      idx == FirstUnreferenced(q)
      full == Len(q) = BLOCK_CACHE_SIZE
      s == IF full /\ idx # 0 THEN BlockCache_sync(q[idx], dev)
           ELSE [e |-> <<>>, dev |-> dev, io |-> <<>>]
      q1 == IF full /\ idx # 0 THEN VecRemove(q, idx - 1) ELSE q IN
  IF found # 0
    THEN [queue |-> [q EXCEPT ![found].handles = @ + 1], device |-> dev, at |-> found,
          io |-> <<>>, panic |-> ""]
  ELSE IF full /\ idx = 0
    THEN [queue |-> q, device |-> dev, at |-> 0, io |-> <<>>,
          panic |-> "Run out of BlockCache!"]
  ELSE [queue |-> Append(q1, [BlockCache_new(block_id, s.dev) EXCEPT !.handles = 1]),
        device |-> s.dev,
        at |-> Len(q1) + 1,
        io |-> s.io \o <<<<"read_block", block_id>>>>,
        panic |-> ""]

\* the number of block cache operations of a run
CacheOps == 5

\* the block cache runs and the run goes on
CacheLive == cache_panic = "" /\ cache_ops < CacheOps

\* what the block cache leaves alone
cacheFrame == <<kernelVars, detectVars, mmVars, pipeVars, bitmapVars, dirVars, copied>>

\* get_block_cache(block_id, device) by a caller that keeps the Arc
get_block_cache(block_id) ==
  LET r == BlockCacheManager_get_block_cache(cache_queue, device, block_id) IN
  /\ CacheLive
  /\ cache_ops' = cache_ops + 1
  /\ cache_op' = <<"get_block_cache", block_id>>
  /\ cache_queue' = r.queue
  /\ device' = r.device
  /\ cache_io' = r.io
  /\ cache_panic' = r.panic
  /\ UNCHANGED <<latest, cacheFrame>>

\* a caller drops an Arc of the entry of block_id
drop_handle(block_id) ==
  LET k == FindBlock(cache_queue, block_id) IN
  /\ cache_panic = ""
  /\ k # 0
  /\ cache_queue[k].handles > 0
  /\ cache_queue' = [cache_queue EXCEPT ![k].handles = @ - 1]
  /\ cache_op' = <<"drop", block_id>>
  /\ cache_io' = <<>>
  /\ UNCHANGED <<device, cache_panic, latest, cache_ops, cacheFrame>>

\* BlockCache::modify (get_mut) by a caller that holds an Arc of the entry: the
\* closure stores value
BlockCache_modify(block_id, value) ==
  LET k == FindBlock(cache_queue, block_id) IN
  /\ CacheLive
  /\ k # 0
  /\ cache_queue[k].handles > 0
  /\ cache_ops' = cache_ops + 1
  /\ cache_queue' = [cache_queue EXCEPT ![k].cache = value, ![k].modified = TRUE]
  /\ latest' = [latest EXCEPT ![block_id] = value]
  /\ cache_op' = <<"modify", block_id, value>>
  /\ cache_io' = <<>>
  /\ UNCHANGED <<device, cache_panic, cacheFrame>>

\* the loop of block_cache_sync_all from entry k on
RECURSIVE sync_from(_, _, _, _)
sync_from(q, dev, calls, k) ==
  IF k > Len(q) THEN [queue |-> q, device |-> dev, io |-> calls]
  ELSE LET s == BlockCache_sync(q[k], dev) IN
       sync_from([q EXCEPT ![k] = s.e], s.dev, calls \o s.io, k + 1)

\* block_cache_sync_all
block_cache_sync_all ==
  LET r == sync_from(cache_queue, device, <<>>, 1) IN
  /\ CacheLive
  /\ cache_ops' = cache_ops + 1
  /\ cache_queue' = r.queue
  /\ device' = r.device
  /\ cache_io' = r.io
  /\ cache_op' = <<"sync_all">>
  /\ UNCHANGED <<cache_panic, latest, cacheFrame>>

\* BlockCacheManager::new, over a device that holds zeros
CacheIdle ==
  /\ cache_queue = <<>>
  /\ device = [b \in Blocks |-> 0]
  /\ cache_panic = ""
  /\ latest = device
  /\ cache_op = <<>>
  /\ cache_io = <<>>
  /\ cache_ops = 0

----------------------------------------------------------------------------
(* The bitmap (easy-fs/src/bitmap.rs).  A u64 is the set of the positions *)
(* of its set bits; the blocks are those the block cache hands out        *)

\* the bits of a u64
WordBits == 64

\* BitmapBlock = [u64; 64]
BlockWords == 64

\* BLOCK_BITS = BLOCK_SZ * 8
BLOCK_BITS == 4096

\* Bitmap.blocks of the bitmap of the model
BitmapBlocks == 2

\* u64::MAX
u64_MAX == 0..(WordBits - 1)

\* the position of the highest clear bit of a word that is not u64::MAX
highest_clear(w) == CHOOSE i \in u64_MAX \ w : \A j \in u64_MAX \ w : j <= i

\* u64::trailing_ones of a word that is not u64::MAX
trailing_ones(w) == CHOOSE i \in u64_MAX \ w : \A j \in u64_MAX \ w : i <= j

\* decomposition(bit): (block_pos, bits64_pos, inner_pos)
decomposition(bit) ==
  <<bit \div BLOCK_BITS, (bit % BLOCK_BITS) \div WordBits, (bit % BLOCK_BITS) % WordBits>>

\* bitmap_block.iter().enumerate().find(|(_, bits64)| **bits64 != u64::MAX): the
\* position of the word, -1 for None
FirstFreeWord(bitmap_block) ==
  LET ws == {w \in 0..(BlockWords - 1) : bitmap_block[w] # u64_MAX} IN
  IF ws = {} THEN -1 ELSE CHOOSE w \in ws : \A x \in ws : w <= x

\* the loop of Bitmap::alloc from block_id on: the blocks and the Option returned,
\* -1 for None
RECURSIVE alloc_from(_, _)
alloc_from(bm, block_id) ==
  IF block_id >= BitmapBlocks THEN [bitmap |-> bm, pos |-> -1]
  ELSE LET bits64_pos == FirstFreeWord(bm[block_id]) IN
       IF bits64_pos = -1 THEN alloc_from(bm, block_id + 1)
       ELSE LET inner_pos == trailing_ones(bm[block_id][bits64_pos]) IN
            [bitmap |-> [bm EXCEPT ![block_id][bits64_pos] = @ \cup {inner_pos}],
             pos |-> block_id * BLOCK_BITS + bits64_pos * 64 + inner_pos]

\* the calls of the Bitmap in a run
BitmapOps == 3

\* the Bitmap runs and the run goes on
BitmapLive == bitmap_panic = "" /\ bitmap_ops < BitmapOps

\* what the Bitmap leaves alone
bitmapFrame == <<kernelVars, detectVars, mmVars, pipeVars, cacheVars, dirVars, copied>>

\* Bitmap::alloc
Bitmap_alloc ==
  LET r == alloc_from(bitmap, 0) IN
  /\ BitmapLive
  /\ bitmap_ops' = bitmap_ops + 1
  /\ bitmap_prev' = bitmap
  /\ bitmap' = r.bitmap
  /\ bitmap_op' = <<"alloc", r.pos>>
  /\ UNCHANGED <<bitmap_panic, bitmapFrame>>

\* Bitmap::dealloc(bit), bit below maximum()
Bitmap_dealloc(bit) ==
  LET d == decomposition(bit) IN
  /\ BitmapLive
  /\ bit < BitmapBlocks * BLOCK_BITS
  /\ bitmap_ops' = bitmap_ops + 1
  /\ bitmap_prev' = bitmap
  /\ bitmap_op' = <<"dealloc", bit>>
  /\ IF d[3] \in bitmap[d[1]][d[2]]
       THEN /\ bitmap' = [bitmap EXCEPT ![d[1]][d[2]] = @ \ {d[3]}]
            /\ UNCHANGED bitmap_panic
       ELSE /\ bitmap_panic' = "assertion failed: bitmap_block[bits64_pos] & (1u64 << inner_pos) > 0"
            /\ UNCHANGED bitmap
  /\ UNCHANGED bitmapFrame

\* a block of which the first full words are u64::MAX, the next is word and the rest 0
BlockWith(full, word) ==
  [w \in 0..(BlockWords - 1) |-> IF w < full THEN u64_MAX ELSE IF w = full THEN word ELSE {}]

\* a Bitmap nothing was allocated from
BitmapIdle ==
  /\ bitmap = [b \in 0..(BitmapBlocks - 1) |-> BlockWith(0, {})]
  /\ bitmap_panic = ""
  /\ bitmap_op = <<>>
  /\ bitmap_prev = bitmap
  /\ bitmap_ops = 0

----------------------------------------------------------------------------
(* The root directory (easy-fs/src/vfs.rs).  The root DiskInode is its    *)
(* size and the DirEntry records of its data, which may hold records      *)
(* beyond the size                                                        *)

\* the bytes of a DirEntry
DIRENT_SZ == 32

\* DiskInode::read_at(offset, dirent.as_bytes_mut()): the bytes read and the record
read_at(disk_inode, offset) ==
  IF offset + DIRENT_SZ <= disk_inode.size
    THEN [n |-> DIRENT_SZ, dirent |-> disk_inode.data[offset \div DIRENT_SZ + 1]]
    ELSE [n |-> 0, dirent |-> [name |-> "", inode_id |-> 0]]

\* DiskInode::write_at(offset, dirent.as_bytes()) below the size
write_at(disk_inode, offset, dirent) ==
  IF offset + DIRENT_SZ <= disk_inode.size
    THEN [disk_inode EXCEPT !.data[offset \div DIRENT_SZ + 1] = dirent]
    ELSE disk_inode

\* the loop of Inode::find_inode_id from record i on: the inode id, -1 for None
RECURSIVE find_from(_, _, _)
find_from(name, disk_inode, i) ==
  IF i >= disk_inode.size \div DIRENT_SZ THEN -1
  ELSE LET dirent == read_at(disk_inode, DIRENT_SZ * i).dirent IN
       IF dirent.name = name THEN dirent.inode_id ELSE find_from(name, disk_inode, i + 1)

\* Inode::find_inode_id
find_inode_id(name, disk_inode) == find_from(name, disk_inode, 0)

\* an unlink that cuts the last record off and moves nothing
unlink_last(root, name, i, file_count) ==
  [root EXCEPT !.size = @ - DIRENT_SZ]

\* the loop of Inode::unlink from record i on
RECURSIVE unlink_from(_, _, _, _)
unlink_from(root, name, i, file_count) ==
  IF i >= file_count THEN root
  ELSE LET buf == read_at(root, DIRENT_SZ * i) IN
       IF buf.n = DIRENT_SZ /\ buf.dirent.name = name
         THEN LET swap == read_at(root, DIRENT_SZ * (file_count - 1)).dirent
                  written == write_at(root, DIRENT_SZ * i, swap) IN
              [written EXCEPT !.size = @ - DIRENT_SZ]
         ELSE unlink_from(root, name, i + 1, file_count)

\* the calls on the root Inode in a run
DirOps == 2

\* what the root Inode leaves alone
dirFrame == <<kernelVars, detectVars, mmVars, pipeVars, cacheVars, bitmapVars, copied>>

\* Inode::unlink(name)
Inode_unlink(name) ==
  LET found == find_inode_id(name, root_inode) # -1 IN
  /\ dir_ops < DirOps
  /\ dir_ops' = dir_ops + 1
  /\ dir_prev' = root_inode
  /\ root_inode' = IF found
                     THEN unlink_from(root_inode, name, 0, root_inode.size \div DIRENT_SZ)
                     ELSE root_inode
  /\ dir_op' = <<"unlink", name, IF found THEN 0 ELSE -1>>
  /\ UNCHANGED dirFrame

\* the closure of Inode::create and Inode::link on the root: increase_size by one
\* record, then write_at of the record at the former end
append_dirent(root, dirent) ==
  LET file_count == root.size \div DIRENT_SZ
      grown == [size |-> (file_count + 1) * DIRENT_SZ,
                data |-> IF Len(root.data) > file_count THEN root.data
                         ELSE Append(root.data, [name |-> "", inode_id |-> 0])] IN
  write_at(grown, file_count * DIRENT_SZ, dirent)

\* Inode::create(name); new_inode_id is what alloc_inode returns
Inode_create(name, new_inode_id) ==
  LET found == find_inode_id(name, root_inode) # -1 IN
  /\ dir_ops < DirOps
  /\ dir_ops' = dir_ops + 1
  /\ dir_prev' = root_inode
  /\ root_inode' = IF found THEN root_inode
                   ELSE append_dirent(root_inode, [name |-> name, inode_id |-> new_inode_id])
  /\ dir_op' = <<"create", name, IF found THEN -1 ELSE 0>>
  /\ UNCHANGED dirFrame

\* sys_linkat(old_name, new_name) and the Inode::link(old, new) it calls
sys_linkat(old, new) ==
  LET old_inode_id == find_inode_id(old, root_inode) IN
  /\ dir_ops < DirOps
  /\ dir_ops' = dir_ops + 1
  /\ dir_prev' = root_inode
  /\ IF old # new /\ old_inode_id # -1
       THEN /\ root_inode' = append_dirent(root_inode, [name |-> new, inode_id |-> old_inode_id])
            /\ dir_op' = <<"link", new, 0>>
       ELSE /\ root_inode' = root_inode
            /\ dir_op' = <<"link", new, -1>>
  /\ UNCHANGED dirFrame

\* an empty root directory
DirIdle ==
  /\ root_inode = [size |-> 0, data |-> <<>>]
  /\ dir_op = <<>>
  /\ dir_prev = root_inode
  /\ dir_ops = 0

\* the block cache, the bitmap and the root directory are idle
StorageIdle == CacheIdle /\ BitmapIdle /\ DirIdle /\ copied = <<>>

\* the file system is idle
FilesIdle == PipesIdle /\ StorageIdle

----------------------------------------------------------------------------
(* Boot *)

\* the scheduler, the user memory and the synchronisation state after boot, with the
\* first task Ready and running the programs p
KernelBoot(p) ==
  /\ task_status = [t \in Tasks |-> IF t = 1 THEN "Ready" ELSE "UnInit"]
  /\ ready_queue = <<1>>
  /\ current = NoTask
  /\ stride = [t \in Tasks |-> U64(0)]
  /\ priority = [t \in Tasks |-> DEFAULT_PRIORITY]
  /\ kpc = [t \in Tasks |-> "user"]
  /\ kmx = [t \in Tasks |-> 0]
  /\ ret = [t \in Tasks |-> 0]
  /\ mutex_list = <<>>
  /\ available = [m \in MutexIds |-> 1]
  /\ allocation = [t \in Tasks |-> [m \in MutexIds |-> 0]]
  /\ need = [t \in Tasks |-> [m \in MutexIds |-> 0]]
  /\ deadlock_detection_enabled = FALSE
  /\ panicked = ""
  /\ held = [t \in Tasks |-> {}]
  /\ discipline = TRUE
  /\ lock_log = [m \in MutexIds |-> <<>>]
  /\ wake_log = [m \in MutexIds |-> <<>>]
  /\ last_call = <<"boot", NoTask, 0>>
  /\ dispatched = [t \in Tasks |-> 0]
  /\ counter = 0
  /\ reg = [t \in Tasks |-> 0]
  /\ prog = p
  /\ upc = [t \in Tasks |-> 1]

\* the tasks are the threads of the one user process, of pid 1, next to initproc
OneProcess ==
  /\ pid = [t \in Tasks |-> 1]
  /\ parent = [t \in Tasks |-> NoTask]
  /\ children = [t \in Tasks |-> <<>>]
  /\ exit_code = [t \in Tasks |-> 0]
  /\ out = [t \in Tasks |-> 0]
  /\ pid_allocator = [current |-> 2, recycled |-> <<>>]
  /\ fd_table = [t \in Tasks |-> StdioTable]

\* the only task is INITPROC, of pid 0
InitprocOnly ==
  /\ pid = [t \in Tasks |-> 0]
  /\ parent = [t \in Tasks |-> NoTask]
  /\ children = [t \in Tasks |-> <<>>]
  /\ exit_code = [t \in Tasks |-> 0]
  /\ out = [t \in Tasks |-> 0]
  /\ pid_allocator = [current |-> 1, recycled |-> <<>>]
  /\ fd_table = [t \in Tasks |-> IF t = 1 THEN StdioTable ELSE <<>>]

\* the state after boot with the main thread of a process that runs programs p
Boot(p) == KernelBoot(p) /\ OneProcess

\* deadlock_detected is not called
DetectorIdle == banker = NoProcess /\ verdict = <<>>

----------------------------------------------------------------------------
(* Physical frames *)

\* the number of frames in the range init_frame_allocator is given
Frames == 3

\* the physical page numbers of the model
PPNs == 0..(Frames + 4)

\* the number of words of a frame
Entries == 2

\* a frame after page cleaning
ZeroPage == [i \in 0..(Entries - 1) |-> 0]

\* StackFrameAllocator::new
StackFrameAllocator_new == [current |-> 0, end |-> 0, recycled |-> <<>>]

\* StackFrameAllocator::init
StackFrameAllocator_init(a, l, r) == [a EXCEPT !.current = l, !.end = r]

\* an alloc that takes the frame recycled first
alloc_oldest(a) ==
  IF a.recycled # <<>>
    THEN [a |-> [a EXCEPT !.recycled = Tail(@)], ppn |-> <<Head(a.recycled)>>]
    ELSE IF a.current = a.end
      THEN [a |-> a, ppn |-> <<>>]
      ELSE [a |-> [a EXCEPT !.current = @ + 1], ppn |-> <<a.current>>]

\* an alloc that reads the top of the recycled stack and leaves it there
alloc_without_pop(a) ==
  IF a.recycled # <<>>
    THEN [a |-> a, ppn |-> <<a.recycled[Len(a.recycled)]>>]
    ELSE IF a.current = a.end
      THEN [a |-> a, ppn |-> <<>>]
      ELSE [a |-> [a EXCEPT !.current = @ + 1], ppn |-> <<a.current>>]

\* StackFrameAllocator::alloc: the allocator afterwards and Some(ppn) or None
StackFrameAllocator_alloc(a) ==
  IF a.recycled # <<>>
    THEN [a |-> [a EXCEPT !.recycled = SubSeq(@, 1, Len(@) - 1)],
          ppn |-> <<a.recycled[Len(a.recycled)]>>]
    ELSE IF a.current = a.end
      THEN [a |-> a, ppn |-> <<>>]
      ELSE [a |-> [a EXCEPT !.current = @ + 1], ppn |-> <<a.current>>]

\* StackFrameAllocator::dealloc: the validity check
StackFrameAllocator_dealloc_ok(a, ppn) ==
  ~(ppn >= a.current \/ \E i \in 1..Len(a.recycled) : a.recycled[i] = ppn)

\* a dealloc that forgets the frame
dealloc_without_push(a, ppn) == a

\* StackFrameAllocator::dealloc, the check passed
StackFrameAllocator_dealloc(a, ppn) == [a EXCEPT !.recycled = Append(@, ppn)]

\* frame_alloc by some kernel code that keeps the FrameTracker (FrameTracker::new
\* cleans the page)
frame_alloc ==
  LET r == StackFrameAllocator_alloc(frame_allocator) IN
  /\ mm_panic = ""
  /\ frame_allocator' = r.a
  /\ frame_ret' = r.ppn
  /\ mm_op' = <<"frame_alloc">>
  /\ IF r.ppn = <<>>
       THEN UNCHANGED <<trackers, frame_bytes, since>>
       ELSE /\ trackers' = Append(trackers, r.ppn[1])
            /\ frame_bytes' = [frame_bytes EXCEPT ![r.ppn[1]] = ZeroPage]
            /\ since' = IF streak THEN Append(since, r.ppn[1]) ELSE since
  /\ UNCHANGED <<frame_range, quiesced, streak, mm_panic, pageVars, outsideVars>>

\* the i-th live FrameTracker is dropped: frame_dealloc
drop_FrameTracker(i) ==
  LET ppn == trackers[i]
      a == StackFrameAllocator_dealloc(frame_allocator, ppn) IN
  /\ mm_panic = ""
  /\ i \in 1..Len(trackers)
  /\ mm_op' = <<"drop", ppn>>
  /\ trackers' = SubSeq(trackers, 1, i - 1) \o SubSeq(trackers, i + 1, Len(trackers))
  /\ IF StackFrameAllocator_dealloc_ok(frame_allocator, ppn)
       THEN /\ frame_allocator' = a
            /\ IF Len(trackers) = 1
                 THEN quiesced' = a /\ streak' = TRUE
                 ELSE quiesced' = quiesced /\ streak' = FALSE
            /\ since' = <<>>
            /\ UNCHANGED mm_panic
       ELSE /\ mm_panic' = "Frame has not been allocated!"
            /\ UNCHANGED <<frame_allocator, quiesced, streak, since>>
  /\ UNCHANGED <<frame_ret, frame_bytes, frame_range, pageVars, outsideVars>>

\* the holder of the i-th live FrameTracker, the one made last, writes to its frame
write_frame(i) ==
  /\ mm_panic = ""
  /\ i \in 1..Len(trackers)
  /\ i = Len(trackers)
  /\ frame_bytes[trackers[i]] = ZeroPage
  /\ frame_bytes' = [frame_bytes EXCEPT ![trackers[i]][0] = 1]
  /\ mm_op' = <<"write", trackers[i]>>
  /\ UNCHANGED <<frame_allocator, trackers, frame_ret, frame_range, quiesced, since, streak,
                 mm_panic, pageVars, outsideVars>>

\* the frame allocator after init_frame_allocator(l, r), nothing allocated
FramesReady(l, r) ==
  /\ frame_allocator = StackFrameAllocator_init(StackFrameAllocator_new, l, r)
  /\ frame_range = <<l, r>>
  /\ trackers = <<>>
  /\ frame_ret = <<>>
  /\ \E page \in {ZeroPage, [ZeroPage EXCEPT ![0] = 1]} : frame_bytes = [n \in PPNs |-> page]
  /\ quiesced = frame_allocator
  /\ since = <<>>
  /\ streak = TRUE

----------------------------------------------------------------------------
(* Page table *)

\* the virtual page numbers: three indexes of a table each
VPNs == 0..(Entries * Entries * Entries - 1)

\* PTEFlags
V == 1
R == 2
W == 4
X == 8
U == 16

\* PageTableEntry::new: ppn << 10 | flags
PageTableEntry_new(ppn, flags) == ppn * 1024 + flags

\* PageTableEntry::empty
PageTableEntry_empty == 0

\* PageTableEntry::ppn
PageTableEntry_ppn(bits) == bits \div 1024

\* PageTableEntry::flags
PageTableEntry_flags(bits) == bits % 256

\* PageTableEntry::is_valid
is_valid(bits) == PageTableEntry_flags(bits) % 2 = 1

\* flags | PTEFlags::V
WithV(flags) == IF flags % 2 = 1 THEN flags ELSE flags + V

\* VirtPageNum::indexes: the index into the root table first
indexes(vpn) ==
  <<(vpn \div (Entries * Entries)) % Entries, (vpn \div Entries) % Entries, vpn % Entries>>

\* no PageTable yet
NoPageTable == [root_ppn |-> 0, frames |-> <<>>]

\* PageTable::find_pte: <<ppn, idx>>, the place of the leaf entry of vpn, << >> for None
find_pte(pt, mem, vpn) ==
  LET idxs == indexes(vpn)
      pte0 == mem[pt.root_ppn][idxs[1]] IN
  IF ~is_valid(pte0) THEN <<>>
  ELSE LET pte1 == mem[PageTableEntry_ppn(pte0)][idxs[2]] IN
       IF ~is_valid(pte1) THEN <<>>
       ELSE <<PageTableEntry_ppn(pte1), idxs[3]>>

\* a translate that returns only valid leaf entries
translate_valid(pt, mem, vpn) ==
  LET at == find_pte(pt, mem, vpn) IN
  IF at = <<>> \/ ~is_valid(mem[at[1]][at[2]]) THEN <<>> ELSE <<mem[at[1]][at[2]]>>

\* PageTable::translate: find_pte(vpn).map(|pte| *pte)
translate(pt, mem, vpn) ==
  LET at == find_pte(pt, mem, vpn) IN
  IF at = <<>> THEN <<>> ELSE <<mem[at[1]][at[2]]>>

\* one level of find_pte_create: from the table st.at to the table that entry idx
\* names, which is created if the entry is not valid; oom when frame_alloc gave None
Descend(st, idx) ==
  LET pte == st.mem[st.at][idx]
      r == StackFrameAllocator_alloc(st.a) IN
  IF st.oom THEN st
  ELSE IF is_valid(pte) THEN [st EXCEPT !.at = PageTableEntry_ppn(pte)]
  ELSE IF r.ppn = <<>> THEN [st EXCEPT !.oom = TRUE]
  ELSE [a |-> r.a,
        mem |-> [st.mem EXCEPT ![r.ppn[1]] = ZeroPage,
                               ![st.at][idx] = PageTableEntry_new(r.ppn[1], V)],
        frames |-> Append(st.frames, r.ppn[1]),
        at |-> r.ppn[1],
        oom |-> FALSE]

\* PageTable::find_pte_create: the allocator, the memory and the frames afterwards, and
\* in at the table of the leaf entry
find_pte_create(pt, a, mem, vpn) ==
  LET idxs == indexes(vpn)
      st0 == [a |-> a, mem |-> mem, frames |-> pt.frames, at |-> pt.root_ppn, oom |-> FALSE] IN
  Descend(Descend(st0, idxs[1]), idxs[2])

\* PageTable::new
PageTable_new ==
  LET r == StackFrameAllocator_alloc(frame_allocator) IN
  /\ mm_panic = ""
  /\ page_table = NoPageTable
  /\ mm_op' = <<"new">>
  /\ IF r.ppn = <<>>
       THEN /\ mm_panic' = "called Option::unwrap() on a None value"
            /\ UNCHANGED <<frame_allocator, frame_bytes, page_table>>
       ELSE /\ frame_allocator' = r.a
            /\ frame_bytes' = [frame_bytes EXCEPT ![r.ppn[1]] = ZeroPage]
            /\ page_table' = [root_ppn |-> r.ppn[1], frames |-> <<r.ppn[1]>>]
            /\ UNCHANGED mm_panic
  /\ UNCHANGED <<trackers, frame_ret, frame_range, quiesced, since, streak, translated,
                 slices, mmap_ret, munmap_ret, areas, mapped, page_ops, outsideVars>>

\* the number of map and unmap calls of a run
PageOps == 3

\* a PageTable exists and the kernel runs
PageTableLive == mm_panic = "" /\ page_table # NoPageTable

\* PageTable::map
map(vpn, ppn, flags) ==
  LET st == find_pte_create(page_table, frame_allocator, frame_bytes, vpn)
      idx == indexes(vpn)[3] IN
  /\ PageTableLive
  /\ page_ops < PageOps
  /\ page_ops' = page_ops + 1
  /\ mm_op' = <<"map", vpn, ppn, flags>>
  /\ IF st.oom
       THEN /\ mm_panic' = "called Option::unwrap() on a None value"
            /\ UNCHANGED <<frame_allocator, frame_bytes, page_table, mapped>>
       ELSE /\ frame_allocator' = st.a
            /\ page_table' = [page_table EXCEPT !.frames = st.frames]
            /\ IF is_valid(st.mem[st.at][idx])
                 THEN /\ mm_panic' = "vpn is mapped before mapping"
                      /\ frame_bytes' = st.mem
                      /\ UNCHANGED mapped
                 ELSE /\ frame_bytes' =
                           [st.mem EXCEPT ![st.at][idx] = PageTableEntry_new(ppn, WithV(flags))]
                      /\ mapped' = [mapped EXCEPT ![vpn] = <<ppn, flags>>]
                      /\ UNCHANGED mm_panic
  /\ translated' = <<>>
  /\ slices' = <<>>
  /\ UNCHANGED <<trackers, frame_ret, frame_range, quiesced, since, streak,
                 mmap_ret, munmap_ret, areas, outsideVars>>

\* PageTable::unmap
unmap(vpn) ==
  LET at == find_pte(page_table, frame_bytes, vpn) IN
  /\ PageTableLive
  /\ page_ops < PageOps
  /\ page_ops' = page_ops + 1
  /\ mm_op' = <<"unmap", vpn>>
  /\ IF at = <<>>
       THEN /\ mm_panic' = "called Option::unwrap() on a None value"
            /\ UNCHANGED <<frame_bytes, mapped>>
       ELSE IF ~is_valid(frame_bytes[at[1]][at[2]])
         THEN /\ mm_panic' = "vpn is invalid before unmapping"
              /\ UNCHANGED <<frame_bytes, mapped>>
         ELSE /\ frame_bytes' = [frame_bytes EXCEPT ![at[1]][at[2]] = PageTableEntry_empty]
              /\ mapped' = [mapped EXCEPT ![vpn] = <<>>]
              /\ UNCHANGED mm_panic
  /\ translated' = <<>>
  /\ slices' = <<>>
  /\ UNCHANGED <<frame_allocator, trackers, frame_ret, frame_range, quiesced, since, streak,
                 page_table, mmap_ret, munmap_ret, areas, outsideVars>>

\* a call of PageTable::translate
call_translate(vpn) ==
  /\ PageTableLive
  /\ translated' = translate(page_table, frame_bytes, vpn)
  /\ mm_op' = <<"translate", vpn>>
  /\ UNCHANGED <<frameVars, page_table, slices, mmap_ret, munmap_ret, areas, mapped, page_ops, mm_panic,
                 outsideVars>>

\* PageTable::token: the mode and the root page number, the fields of 8 << 60 | root_ppn
token(pt) == <<8, pt.root_ppn>>

\* PageTable::from_token: a view that owns no frames
from_token(satp) == [root_ppn |-> satp[2], frames |-> <<>>]

\* the bytes of a page
PAGE_SIZE == 4096

\* the addresses the indexes of a vpn and the page offset tell apart
VA_SPACE == Entries * Entries * Entries * PAGE_SIZE

\* a < b for usize values; a negative number n stands for the usize 2^64 + n
usize_lt(a, b) == IF (a < 0) = (b < 0) THEN a < b ELSE b < 0

\* VirtAddr::from(usize): the bits of the virtual address
VirtAddr_from(v) == v % VA_SPACE

\* VirtAddr::floor
floor(va) == va \div PAGE_SIZE

\* VirtAddr::page_offset
page_offset(va) == va % PAGE_SIZE

\* the loop of translated_byte_buffer from start, v the slices pushed so far; a slice
\* [ppn, lo, hi] is ppn.get_bytes_array()[lo..hi]
RECURSIVE byte_buffer_loop(_, _, _, _, _)
byte_buffer_loop(pt, mem, start, end, v) ==
  IF ~usize_lt(start, end) THEN [v |-> v, panic |-> ""]
  ELSE
    LET start_va == VirtAddr_from(start)
        vpn == floor(start_va)
        pte == translate(pt, mem, vpn)
        end_va0 == (vpn + 1) * PAGE_SIZE
        end_va == IF end_va0 < VirtAddr_from(end) THEN end_va0 ELSE VirtAddr_from(end)
        hi == IF page_offset(end_va) = 0 THEN PAGE_SIZE ELSE page_offset(end_va) IN
    IF pte = <<>> THEN [v |-> v, panic |-> "called Option::unwrap() on a None value"]
    ELSE IF page_offset(start_va) > hi THEN [v |-> v, panic |-> "slice index starts after its end"]
    ELSE byte_buffer_loop(pt, mem, end_va, end,
           Append(v, [ppn |-> PageTableEntry_ppn(pte[1]), lo |-> page_offset(start_va), hi |-> hi]))

\* translated_byte_buffer; start + len wraps at 2^64
translated_byte_buffer(satp, mem, ptr, len) ==
  byte_buffer_loop(from_token(satp), mem, ptr, ptr + len, <<>>)

\* a call of translated_byte_buffer on the page table
call_translated_byte_buffer(ptr, len) ==
  LET r == translated_byte_buffer(token(page_table), frame_bytes, ptr, len) IN
  /\ PageTableLive
  /\ mm_op' = <<"translated_byte_buffer", ptr, len>>
  /\ slices' = r.v
  /\ mm_panic' = r.panic
  /\ UNCHANGED <<frameVars, page_table, translated, mmap_ret, munmap_ret, areas, mapped, page_ops,
                 outsideVars>>

\* the bytes of an integer v of n bytes, the lowest first (v is below 2^31)
to_le_bytes(v, n) == [i \in 1..n |-> IF i <= 4 THEN (v \div 256 ^ (i - 1)) % 256 ELSE 0]

\* the bytes of a TimeVal: sec, usec
TimeVal(sec, usec) == to_le_bytes(sec, 8) \o to_le_bytes(usec, 8)

\* StatMode::FILE
StatMode_FILE == 32768

\* the bytes of a Stat: dev, ino, mode, nlink, pad
Stat(dev, ino, mode, nlink) ==
  to_le_bytes(dev, 8) \o to_le_bytes(ino, 8) \o to_le_bytes(mode, 4) \o to_le_bytes(nlink, 4)
    \o to_le_bytes(0, 56)

\* the length of TaskInfo.syscall_times
MAX_SYSCALL_NUM == 500

\* the bytes of a TaskInfo: status, syscall_times, time, with the fields in the order of
\* their declaration, each at its alignment; fill is the byte the padding holds
TaskInfo(status, syscall_times, time, fill) ==
  <<status, fill, fill, fill>>
    \o [i \in 1..(4 * MAX_SYSCALL_NUM) |->
          to_le_bytes(syscall_times[(i - 1) \div 4], 4)[((i - 1) % 4) + 1]]
    \o <<fill, fill, fill, fill>> \o to_le_bytes(time, 8)

\* the bytes a slice of the kernel memory at src_ptr holds: those of the struct, then
\* those of the memory behind it
from_raw_parts(kernel, offset, len) == SubSeq(kernel, offset + 1, offset + len)

\* the loop of sys_get_time and sys_task_info over dst_vec from slice idx on: the slice
\* is filled from src_ptr + idx * unit_len, unit_len its own length; user is the
\* bytes stored so far
RECURSIVE copy_from_unit_len(_, _, _, _)
copy_from_unit_len(kernel, dst_vec, idx, user) ==
  IF idx >= Len(dst_vec) THEN user
  ELSE LET unit_len == dst_vec[idx + 1].hi - dst_vec[idx + 1].lo IN
       copy_from_unit_len(kernel, dst_vec, idx + 1,
                          user \o from_raw_parts(kernel, idx * unit_len, unit_len))

\* the loop of sys_fstat: the slice is filled from stat_ptr + idx
RECURSIVE copy_from_idx(_, _, _, _)
copy_from_idx(kernel, st, idx, user) ==
  IF idx >= Len(st) THEN user
  ELSE LET len == st[idx + 1].hi - st[idx + 1].lo IN
       copy_from_idx(kernel, st, idx + 1, user \o from_raw_parts(kernel, idx, len))

\* the bytes the kernel memory behind a struct may hold
StackFills == {0, 255}

\* what a struct-returning system call leaves alone
copyFrame == <<frameVars, page_table, translated, mmap_ret, munmap_ret, areas, mapped, page_ops,
               kernelVars, detectVars, pipeVars, cacheVars, bitmapVars, dirVars>>

\* a system call stores the struct of bytes src at ptr through the slices r of
\* translated_byte_buffer; after(kernel) is what its loop stores, kernel the bytes of
\* the struct and of the memory behind it
store_struct(op, ptr, src, r, by_unit_len) ==
  /\ mm_op' = <<op, ptr>>
  /\ slices' = <<>>
  /\ mm_panic' = r.panic
  /\ IF r.panic # ""
       THEN copied' = copied
       ELSE \E fill \in StackFills :
              LET kernel == src \o [i \in 1..Len(src) |-> fill] IN
              copied' = [op |-> op, ptr |-> ptr, src |-> src,
                         dst |-> IF by_unit_len
                                   THEN copy_from_unit_len(kernel, r.v, 0, <<>>)
                                   ELSE copy_from_idx(kernel, r.v, 0, <<>>)]
  /\ UNCHANGED copyFrame

\* sys_get_time(ts, _tz) at the time us in microseconds
sys_get_time(ts, us) ==
  LET time_val == TimeVal(us \div 1000000, us % 1000000) IN
  /\ PageTableLive
  /\ copied = <<>>
  /\ store_struct("sys_get_time", ts, time_val,
                  translated_byte_buffer(token(page_table), frame_bytes, ts, Len(time_val)),
                  TRUE)

\* TaskStatus::Running as u8
TaskStatus_Running == 2

\* sys_task_info(ti) of a task that made the system calls syscall_times, at the time ms
\* in milliseconds
sys_task_info(ti, syscall_times, ms) ==
  /\ PageTableLive
  /\ copied = <<>>
  /\ \E fill \in StackFills :
       LET task_info == TaskInfo(TaskStatus_Running, syscall_times, ms, fill) IN
       store_struct("sys_task_info", ti, task_info,
                    translated_byte_buffer(token(page_table), frame_bytes, ti, Len(task_info)),
                    TRUE)

\* sys_fstat(fd, st) by task t; ino and nlink are what get_inode_id and get_link_num
\* return for the file
sys_fstat(t, fd, st, ino, nlink) ==
  LET stat == Stat(0, ino, StatMode_FILE, nlink) IN
  /\ PageTableLive
  /\ copied = <<>>
  /\ IF FileOf(t, fd) = ""
       THEN /\ mm_op' = <<"sys_fstat", st>>
            /\ UNCHANGED <<slices, mm_panic, copied, copyFrame>>
       ELSE IF FileOf(t, fd) # "OSInode"
         THEN /\ mm_op' = <<"sys_fstat", st>>
              /\ mm_panic' = "called Option::unwrap() on a None value"
              /\ UNCHANGED <<slices, copied, copyFrame>>
         ELSE store_struct("sys_fstat", st, stat,
                           translated_byte_buffer(token(page_table), frame_bytes, st, Len(stat)),
                           FALSE)

\* VirtAddr::ceil
ceil(va) == (va + PAGE_SIZE - 1) \div PAGE_SIZE

\* the first address that is not a legal start of a mapping
MAXVA == VA_SPACE \div 2

\* port & 0x7
Low3(port) == port % 8

\* MapPermission::from_bits_truncate((port << 1) as u8) | MapPermission::U
MapPermission(port) ==
  LET u8 == (port * 2) % 256
      bits == (u8 % 32) - (u8 % 2) IN
  IF (bits \div U) % 2 = 1 THEN bits ELSE bits + U

\* a check that looks at the first page of the range only
overlaps_at_start(pt, mem, start_vpn, end_vpn) ==
  /\ start_vpn < end_vpn
  /\ translate(pt, mem, start_vpn) # <<>>
  /\ is_valid(translate(pt, mem, start_vpn)[1])

\* sys_mmap: the check of the range [start_vpn, end_vpn): some pte is valid
overlaps(pt, mem, start_vpn, end_vpn) ==
  \E vpn \in start_vpn..(end_vpn - 1) :
    /\ translate(pt, mem, vpn) # <<>>
    /\ is_valid(translate(pt, mem, vpn)[1])

\* MemorySet::insert_framed_area from vpn on: every page gets a frame of its own and
\* is mapped to it; st is the allocator, the memory, the frames of the page table,
\* the frames of the area and the mappings so far
RECURSIVE map_pages(_, _, _, _, _)
map_pages(st, root, vpn, end_vpn, flags) ==
  IF vpn >= end_vpn \/ st.panic # "" THEN st
  ELSE
    LET r == StackFrameAllocator_alloc(st.a) IN
    IF r.ppn = <<>> THEN [st EXCEPT !.panic = "called Option::unwrap() on a None value"]
    ELSE
      LET ppn == r.ppn[1]
          w == find_pte_create([root_ppn |-> root, frames |-> st.frames], r.a,
                               [st.mem EXCEPT ![ppn] = ZeroPage], vpn)
          idx == indexes(vpn)[3] IN
      IF w.oom THEN [st EXCEPT !.panic = "called Option::unwrap() on a None value"]
      ELSE IF is_valid(w.mem[w.at][idx]) THEN [st EXCEPT !.panic = "vpn is mapped before mapping"]
      ELSE map_pages([a |-> w.a,
                      mem |-> [w.mem EXCEPT ![w.at][idx] = PageTableEntry_new(ppn, WithV(flags))],
                      frames |-> w.frames,
                      data |-> Append(st.data, ppn),
                      mapped |-> [st.mapped EXCEPT ![vpn] = <<ppn, flags>>],
                      panic |-> ""],
                     root, vpn + 1, end_vpn, flags)

\* the MapArea that MemorySet::insert_framed_area pushes: the range and the frame of
\* each of its pages
MapArea(start_vpn, end_vpn, mp) ==
  [start_vpn |-> start_vpn, end_vpn |-> end_vpn,
   data_frames |-> [vpn \in start_vpn..(end_vpn - 1) |-> mp[vpn][1]]]

\* the number of sys_mmap calls of a run
MmapCalls == 2

\* sys_mmap of the task that owns the page table
sys_mmap(start, len, port) ==
  LET start_vpn == floor(VirtAddr_from(start))
      end_vpn == ceil(VirtAddr_from(start + len))
      st == map_pages([a |-> frame_allocator, mem |-> frame_bytes, frames |-> page_table.frames,
                       data |-> trackers, mapped |-> mapped, panic |-> ""],
                      page_table.root_ppn, start_vpn, end_vpn, MapPermission(port)) IN
  /\ PageTableLive
  /\ page_ops < MmapCalls
  /\ page_ops' = page_ops + 1
  /\ mm_op' = <<"sys_mmap", start, len, port>>
  /\ translated' = <<>>
  /\ slices' = <<>>
  /\ IF \/ start % PAGE_SIZE # 0
        \/ port - Low3(port) # 0
        \/ Low3(port) = 0
        \/ ~usize_lt(start, MAXVA)
        \/ overlaps(page_table, frame_bytes, start_vpn, end_vpn)
       THEN /\ mmap_ret' = -1
            /\ UNCHANGED <<frame_allocator, frame_bytes, trackers, page_table, mapped, areas,
                           mm_panic>>
       ELSE IF st.panic # ""
         THEN /\ mm_panic' = st.panic
              /\ UNCHANGED <<frame_allocator, frame_bytes, trackers, page_table, mapped, areas,
                             mmap_ret>>
         ELSE /\ mmap_ret' = 0
              /\ frame_allocator' = st.a
              /\ frame_bytes' = st.mem
              /\ trackers' = st.data
              /\ page_table' = [page_table EXCEPT !.frames = st.frames]
              /\ mapped' = st.mapped
              /\ areas' = Append(areas, MapArea(start_vpn, end_vpn, st.mapped))
              /\ UNCHANGED mm_panic
  /\ UNCHANGED <<frame_ret, frame_range, quiesced, since, streak, munmap_ret, outsideVars>>

\* start & PAGE_SIZE: the bit of start that PAGE_SIZE has set
BitAnd_PAGE_SIZE(start) == ((start \div PAGE_SIZE) % 2) * PAGE_SIZE

\* the loop of unmap_consecutive_area from vpn on; st is the memory, the mappings and
\* the value returned so far
RECURSIVE unmap_pages(_, _, _, _)
unmap_pages(st, pt, vpn, end_vpn) ==
  IF vpn >= end_vpn THEN st
  ELSE
    LET pte == translate(pt, st.mem, vpn)
        at == find_pte(pt, st.mem, vpn) IN
    IF pte = <<>> THEN [st EXCEPT !.ret = -1]
    ELSE IF ~is_valid(pte[1]) THEN [st EXCEPT !.ret = -1]
    ELSE unmap_pages([mem |-> [st.mem EXCEPT ![at[1]][at[2]] = PageTableEntry_empty],
                      mapped |-> [st.mapped EXCEPT ![vpn] = <<>>],
                      ret |-> 0],
                     pt, vpn + 1, end_vpn)

\* unmap_consecutive_area of the task that owns the page table
unmap_consecutive_area(start, len) ==
  unmap_pages([mem |-> frame_bytes, mapped |-> mapped, ret |-> 0], page_table,
              floor(VirtAddr_from(start)), ceil(VirtAddr_from(start + len)))

\* the number of sys_mmap and sys_munmap calls of a run with sys_munmap
MunmapCalls == 3

\* sys_munmap of the task that owns the page table
sys_munmap(start, len) ==
  LET mlen == IF usize_lt(usize_sub(MAXVA, len), start) THEN usize_sub(MAXVA, start) ELSE len
      r == unmap_consecutive_area(start, mlen) IN
  /\ PageTableLive
  /\ page_ops < MunmapCalls
  /\ page_ops' = page_ops + 1
  /\ mm_op' = <<"sys_munmap", start, len>>
  /\ translated' = <<>>
  /\ slices' = <<>>
  /\ IF ~usize_lt(start, MAXVA) \/ BitAnd_PAGE_SIZE(start) # 0
       THEN /\ munmap_ret' = -1
            /\ UNCHANGED <<frame_bytes, mapped>>
       ELSE /\ munmap_ret' = r.ret
            /\ frame_bytes' = r.mem
            /\ mapped' = r.mapped
  /\ UNCHANGED <<frame_allocator, trackers, frame_ret, frame_range, quiesced, since, streak,
                 page_table, mmap_ret, areas, mm_panic, outsideVars>>

\* no PageTable was made
PagesIdle ==
  /\ page_table = NoPageTable
  /\ translated = <<>>
  /\ slices = <<>>
  /\ mmap_ret = 0
  /\ munmap_ret = 0
  /\ areas = <<>>
  /\ mapped = [v \in VPNs |-> <<>>]
  /\ page_ops = 0

\* the memory management before init_frame_allocator
MemoryIdle ==
  /\ frame_allocator = StackFrameAllocator_new
  /\ frame_range = <<0, 0>>
  /\ trackers = <<>>
  /\ frame_ret = <<>>
  /\ frame_bytes = [n \in PPNs |-> ZeroPage]
  /\ quiesced = frame_allocator
  /\ since = <<>>
  /\ streak = TRUE
  /\ PagesIdle
  /\ mm_op = <<>>
  /\ mm_panic = ""

\* the parts of the model outside the kernel's scheduling and synchronisation are idle
RestIdle == DetectorIdle /\ MemoryIdle /\ FilesIdle

----------------------------------------------------------------------------
(* Spec: the main thread creates a spin mutex (id 0), a blocking mutex    *)
(* (id 1) and two threads, which issue freely chosen lock, unlock and     *)
(* yield calls                                                            *)

FreeProgs ==
  [t \in Tasks |->
     IF t = 1 THEN <<CreateSpin, CreateBlocking, ThreadCreate, ThreadCreate, Exit>>
     ELSE IF t \in {2, 3} THEN Repeat(<<Free>>, FreeOps) \o <<Exit>>
     ELSE <<>>]

Init == Boot(FreeProgs) /\ RestIdle

Next ==
  \/ run_tasks
  \/ \E t \in Tasks : sys_yield(t)
  \/ \E t \in Tasks : timer_interrupt(t)
  \/ \E t \in Tasks : sys_exit(t)
  \/ \E t \in Tasks : sys_thread_create(t)
  \/ \E t \in Tasks : \E blocking \in BOOLEAN : sys_mutex_create(t, blocking)
  \/ \E t \in Tasks : \E m \in MutexIds : sys_mutex_lock(t, m)
  \/ \E t \in Tasks : \E m \in MutexIds : sys_mutex_unlock(t, m)
  \/ \E t \in Tasks : MutexSpin_lock_resume(t)
  \/ \E t \in Tasks : MutexBlocking_lock_resume(t)

Spec == Init /\ [][Next]_vars

\* C1: the task in the processor's current slot has status Running; the hart never
\* runs a task whose status is Zombie or Blocked.
C1_CurrentIsRunning ==
  \A t \in Tasks :
    current = t => /\ task_status[t] = "Running"
                   /\ task_status[t] \notin {"Zombie", "Blocked"}

\* a task runs while another one is a zombie and a third one is blocked
C1_Witness ==
  /\ current # NoTask
  /\ \E t \in Tasks : task_status[t] = "Zombie"
  /\ \E t \in Tasks : task_status[t] = "Blocked"

\* the step issues the system call op with argument m for task t
Calls(op, t, m) == upc'[t] = upc[t] + 1 /\ last_call' = <<op, t, m>>

IsBlocking(m) == m < Len(mutex_list) /\ mutex_list[m + 1].blocking

Holders(m) == {t \in Tasks : m \in held[t]}

C8_Accounting ==
  (panicked = "" /\ discipline /\ \A t \in Tasks : kpc[t] = "user") =>
    \A r \in MutexIds :
      /\ available[r] >= 0
      /\ available[r] + Sum([t \in Tasks |-> allocation[t][r]], Tasks) = 1

----------------------------------------------------------------------------
(* SpecSpin: two threads increment a shared counter Iterations times each, *)
(* every increment (a load and a store) under the spin mutex 0             *)

SpinWorkers == {2, 3}

SpinProgs ==
  [t \in Tasks |->
     IF t = 1 THEN <<CreateSpin, ThreadCreate, ThreadCreate, Exit>>
     ELSE IF t \in SpinWorkers
          THEN Repeat(<<Lock(0), Load, Store, Unlock(0)>>, Iterations) \o <<Exit>>
     ELSE <<>>]

InitSpin == Boot(SpinProgs) /\ RestIdle

NextSpin ==
  \/ run_tasks
  \/ \E t \in Tasks : timer_interrupt(t)
  \/ \E t \in Tasks : sys_exit(t)
  \/ \E t \in Tasks : sys_thread_create(t)
  \/ \E t \in Tasks : \E blocking \in BOOLEAN : sys_mutex_create(t, blocking)
  \/ \E t \in Tasks : \E m \in MutexIds : sys_mutex_lock(t, m)
  \/ \E t \in Tasks : \E m \in MutexIds : sys_mutex_unlock(t, m)
  \/ \E t \in Tasks : MutexSpin_lock_resume(t)
  \/ \E t \in Tasks : user_load(t)
  \/ \E t \in Tasks : user_store(t)

SpecSpin == InitSpin /\ [][NextSpin]_vars

\* C2: MutexSpin gives mutual exclusion: at most one thread is between the return of
\* lock and its unlock, and when both threads have finished their Iterations
\* increments the counter is 2 * Iterations.
C2_SpinMutualExclusion ==
  /\ Cardinality(Holders(0)) <= 1
  /\ (\A t \in SpinWorkers : task_status[t] = "Zombie") => counter = 2 * Iterations

\* both threads have finished, each after it was switched out and dispatched again
C2_Witness ==
  /\ \A t \in SpinWorkers : task_status[t] = "Zombie" /\ dispatched[t] >= 2
  /\ counter = 2 * Iterations

----------------------------------------------------------------------------
(* SpecFifo: the main thread holds the blocking mutex 0 while three        *)
(* threads call lock on it; every thread unlocks the mutex once it has it  *)

FifoProgs ==
  [t \in Tasks |->
     IF t = 1 THEN <<CreateBlocking, Lock(0), ThreadCreate, ThreadCreate, ThreadCreate,
                     Yield, Unlock(0), Exit>>
     ELSE <<Lock(0), Unlock(0), Exit>>]

InitFifo == Boot(FifoProgs) /\ RestIdle

NextFifo ==
  \/ run_tasks
  \/ \E t \in Tasks : sys_yield(t)
  \/ \E t \in Tasks : timer_interrupt(t)
  \/ \E t \in Tasks : sys_exit(t)
  \/ \E t \in Tasks : sys_thread_create(t)
  \/ \E t \in Tasks : \E blocking \in BOOLEAN : sys_mutex_create(t, blocking)
  \/ \E t \in Tasks : \E m \in MutexIds : sys_mutex_lock(t, m)
  \/ \E t \in Tasks : \E m \in MutexIds : sys_mutex_unlock(t, m)
  \/ \E t \in Tasks : MutexBlocking_lock_resume(t)

SpecFifo == InitFifo /\ [][NextFifo]_vars

\* C4: MutexBlocking wakes its waiters in the order of their lock calls: the waiters
\* woken so far are the first callers that blocked, in call order, and the wait queue
\* holds the later ones, in call order.
C4_FifoWakeOrder ==
  \A m \in MutexIds : IsBlocking(m) =>
    /\ Len(wake_log[m]) <= Len(lock_log[m])
    /\ wake_log[m] = SubSeq(lock_log[m], 1, Len(wake_log[m]))
    /\ mutex_list[m + 1].wait_queue
         = SubSeq(lock_log[m], Len(wake_log[m]) + 1, Len(lock_log[m]))

\* three threads blocked on the held mutex, then three successive unlocks woke them
C4_Witness ==
  /\ Len(lock_log[0]) = 3
  /\ Len(wake_log[0]) = 3
  /\ \E t \in Tasks : task_status[t] = "Zombie" /\ t = lock_log[0][3]

----------------------------------------------------------------------------
(* SpecAbba: the main thread creates the mutexes M1 (id 0) and M2 (id 1),  *)
(* of either kind, and calls sys_enable_deadlock_detect with 0, 1 or 2;    *)
(* thread T0 locks M1 then M2, thread T1 locks M2 then M1                  *)

T0 == 2
T1 == 3
M1 == 0
M2 == 1

AbbaProgs ==
  [t \in Tasks |->
     CASE t = 1 -> <<I("mutex_create", {0, 1}), I("mutex_create", {0, 1}),
                    I("enable_deadlock_detect", {0, 1, 2}),
                    ThreadCreate, ThreadCreate, Exit>>
       [] t = T0 -> <<Lock(M1), Lock(M2), Unlock(M2), Unlock(M1), Exit>>
       [] t = T1 -> <<Lock(M2), Lock(M1), Unlock(M1), Unlock(M2), Exit>>
       [] OTHER -> <<>>]

InitAbba == Boot(AbbaProgs) /\ RestIdle

NextAbba ==
  \/ run_tasks
  \/ \E t \in Tasks : timer_interrupt(t)
  \/ \E t \in Tasks : sys_exit(t)
  \/ \E t \in Tasks : sys_thread_create(t)
  \/ \E t \in Tasks : \E blocking \in BOOLEAN : sys_mutex_create(t, blocking)
  \/ \E t \in Tasks : \E enabled \in 0..2 : sys_enable_deadlock_detect(t, enabled)
  \/ \E t \in Tasks : \E m \in MutexIds : sys_mutex_lock(t, m)
  \/ \E t \in Tasks : \E m \in MutexIds : sys_mutex_unlock(t, m)
  \/ \E t \in Tasks : MutexSpin_lock_resume(t)
  \/ \E t \in Tasks : MutexBlocking_lock_resume(t)

SpecAbba == InitAbba /\ [][NextAbba]_vars

\* task t is inside a lock call on mutex m that has not returned
InLock(t, m) == kpc[t] # "user" /\ kmx[t] = m

\* T0 holds M1 and is inside lock(M2); T1 holds M2 and is inside lock(M1)
Deadlocked ==
  /\ M1 \in held[T0] /\ InLock(T0, M2)
  /\ M2 \in held[T1] /\ InLock(T1, M1)

\* the second lock call of t has returned -0xDEAD
Refused(t) == upc[t] = 3 /\ kpc[t] = "user" /\ ret[t] = -DEAD

\* C5: with detection enabled, when T0 holds M1, T1 holds M2 and both have issued their
\* second lock call, exactly one of the two calls has returned -0xDEAD, and the two
\* threads are never both waiting; the kernel serves the calls (it does not panic).
C5_BankerRefusal ==
  deadlock_detection_enabled =>
    /\ panicked = ""
    /\ ~Deadlocked
    /\ (upc[T0] = 3 /\ upc[T1] = 3) => (Refused(T0) # Refused(T1))

\* C6: with detection disabled, once T0 holds M1 and waits for M2 while T1 holds M2 and
\* waits for M1, neither lock call ever returns: no step of the system lets either
\* thread leave its lock call or changes what the two hold.
C6_AbbaDeadlock ==
  [][(~deadlock_detection_enabled /\ Deadlocked) =>
       (~deadlock_detection_enabled' /\ Deadlocked' /\ UNCHANGED <<held, ret>>)]_vars

\* both first lock calls were accepted and the two threads wait for each other
C6_Witness ==
  /\ ~deadlock_detection_enabled
  /\ Deadlocked
  /\ ret[T0] = 0 /\ ret[T1] = 0
  /\ panicked = ""

----------------------------------------------------------------------------
(* SpecDetect: deadlock_detected called on every bounded process state:    *)
(* up to MaxThreads threads, resources of 1 to MaxUnits units, allocations *)
(* that do not exceed the units, maximum claims not below the allocations  *)

\* per resource: its units, and allocation and max of each of n threads
Columns(n) ==
  {c \in [units : 1..MaxUnits,
          cells : [0..(n - 1) -> {am \in (0..MaxUnits) \X (0..MaxUnits) : am[1] <= am[2]}]] :
     Sum([i \in 0..(n - 1) |-> c.cells[i][1]], 0..(n - 1)) <= c.units}

ProcessState(n, cols) ==
  [num_processes |-> n,
   TOTAL_AVAILABLE |-> [j \in Resources |-> cols[j].units],
   allocation |-> [i \in 0..(n - 1) |-> [j \in Resources |-> cols[j].cells[i][1]]],
   max |-> [i \in 0..(n - 1) |-> [j \in Resources |-> cols[j].cells[i][2]]]]

NoProgs == [t \in Tasks |-> <<>>]

InitDetect ==
  /\ Boot(NoProgs)
  /\ MemoryIdle
  /\ FilesIdle
  /\ verdict = <<>>
  /\ \E n \in 0..MaxThreads : \E cols \in [Resources -> Columns(n)] :
       banker = ProcessState(n, cols)

NextDetect == call_deadlock_detected

SpecDetect == InitDetect /\ [][NextDetect]_vars

\* the threads all finish in the order given by the sequence order, each one's need
\* met by what is available plus what the earlier ones released
RECURSIVE FinishesInOrder(_, _, _)
FinishesInOrder(b, order, work) ==
  IF order = <<>> THEN TRUE
  ELSE LET i == Head(order) IN
       /\ \A j \in Resources : b.max[i][j] - b.allocation[i][j] <= work[j]
       /\ FinishesInOrder(b, Tail(order), [j \in Resources |-> work[j] + b.allocation[i][j]])

\* the orderings of the threads 0 .. n - 1
Orderings(n) ==
  {o \in [1..n -> 0..(n - 1)] : \A k, l \in 1..n : o[k] = o[l] => k = l}

SafeOrderingExists(b) ==
  LET procs == 0..(b.num_processes - 1)
      avail == [j \in Resources |->
                  b.TOTAL_AVAILABLE[j] - Sum([i \in procs |-> b.allocation[i][j]], procs)]
  IN \E o \in Orderings(b.num_processes) : FinishesInOrder(b, o, avail)

\* C9: deadlock_detected returns, and it returns "safe" (false) exactly when an
\* ordering exists in which every thread's remaining need is met; with zero threads
\* (the empty ordering) the state is safe.
C9_DetectorVerdict ==
  verdict # <<>> => (verdict[1] = FALSE <=> SafeOrderingExists(banker))

\* the same for the process states with at least one thread
DetectorVerdictOfThreads ==
  (verdict # <<>> /\ banker.num_processes > 0) =>
    (verdict[1] = FALSE <=> SafeOrderingExists(banker))

----------------------------------------------------------------------------
(* SpecStride: three tasks that have run for long, of priority 2 or 16,    *)
(* each one pass (BIG_STRIDE / priority) below 2^31, yield and exit        *)

StrideTasks == {1, 2, 3}

\* the stride of a task of priority p that is one pass below 2^31
PassBelowSentinel(p) == U64Add(MIN_STRIDE_INIT, 1 - (BIG_STRIDE \div p))

StrideProgs ==
  [t \in Tasks |-> IF t \in StrideTasks THEN Repeat(<<Yield>>, Yields) \o <<Exit>> ELSE <<>>]

InitStride ==
  /\ task_status = [t \in Tasks |-> IF t \in StrideTasks THEN "Ready" ELSE "UnInit"]
  /\ ready_queue = <<1, 2, 3>>
  /\ current = NoTask
  /\ priority \in [Tasks -> {2, DEFAULT_PRIORITY}]
  /\ \A t \in Tasks \ StrideTasks : priority[t] = DEFAULT_PRIORITY
  /\ stride = [t \in Tasks |-> IF t \in StrideTasks THEN PassBelowSentinel(priority[t])
                                ELSE U64(0)]
  /\ kpc = [t \in Tasks |-> "user"]
  /\ kmx = [t \in Tasks |-> 0]
  /\ ret = [t \in Tasks |-> 0]
  /\ mutex_list = <<>>
  /\ available = [m \in MutexIds |-> 1]
  /\ allocation = [t \in Tasks |-> [m \in MutexIds |-> 0]]
  /\ need = [t \in Tasks |-> [m \in MutexIds |-> 0]]
  /\ deadlock_detection_enabled = FALSE
  /\ panicked = ""
  /\ held = [t \in Tasks |-> {}]
  /\ discipline = TRUE
  /\ lock_log = [m \in MutexIds |-> <<>>]
  /\ wake_log = [m \in MutexIds |-> <<>>]
  /\ last_call = <<"boot", NoTask, 0>>
  /\ dispatched = [t \in Tasks |-> 0]
  /\ counter = 0
  /\ reg = [t \in Tasks |-> 0]
  /\ prog = StrideProgs
  /\ upc = [t \in Tasks |-> 1]
  /\ pid = [t \in Tasks |-> t]
  /\ parent = [t \in Tasks |-> NoTask]
  /\ children = [t \in Tasks |-> <<>>]
  /\ exit_code = [t \in Tasks |-> 0]
  /\ out = [t \in Tasks |-> 0]
  /\ pid_allocator = [current |-> 5, recycled |-> <<>>]
  /\ fd_table = [t \in Tasks |-> StdioTable]
  /\ RestIdle

NextStride ==
  \/ run_tasks
  \/ \E t \in Tasks : sys_yield(t)
  \/ \E t \in Tasks : timer_interrupt(t)
  \/ \E t \in Tasks : sys_exit(t)

SpecStride == InitStride /\ [][NextStride]_vars

\* the index (from 1) in the queue of a Ready task whose stride no Ready task of the
\* queue is below, with no such task before it
IsMinStrideEarliest(queue, k) ==
  /\ task_status[queue[k]] = "Ready"
  /\ \A l \in 1..Len(queue) :
       task_status[queue[l]] = "Ready" =>
         /\ ~U64Lt(stride[queue[l]], stride[queue[k]])
         /\ (l < k => U64Lt(stride[queue[k]], stride[queue[l]]))

\* C10: the task run_tasks takes from TaskManager::fetch is the Ready task of least
\* stride in the ready queue, the earliest one on ties, whatever the strides are; on
\* an empty queue fetch returns None.
C10_FetchMinStride ==
  [][/\ (current = NoTask /\ current' # NoTask) =>
          \E k \in 1..Len(ready_queue) :
             /\ ready_queue[k] = current'
             /\ IsMinStrideEarliest(ready_queue, k)
     /\ ready_queue = <<>> =>
          fetch(ready_queue, task_status, stride, priority).task = NoTask
  ]_vars

----------------------------------------------------------------------------
(* SpecProc: initproc forks the process P and then waits; P forks a child, *)
(* spawns the application 2, issues freely chosen waitpid, exit and yield  *)
(* calls and exits; the forked child yields or exits with a code it        *)
(* chooses; the spawned one exits with its name as the exit code           *)

ForkTo(code) == [ops |-> {"fork"}, ms |-> {}, child |-> code]
Spawn(name) == I("spawn", {name})

ForkedCode == <<[ops |-> {"exit", "yield"}, ms |-> {7}], I("exit", {7})>>

PCode ==
  <<ForkTo(ForkedCode), [ops |-> {"spawn"}, ms |-> {-1, 2}]>>
  \o Repeat(<<[ops |-> {"waitpid", "exit", "yield"}, ms |-> {-1, 2, 3}]>>, ProcOps)
  \o <<I("exit", {5})>>

ProcProgs ==
  [t \in Tasks |->
     IF t = INITPROC
     THEN <<ForkTo(PCode)>>
          \o Repeat(<<[ops |-> {"waitpid", "yield"}, ms |-> {-1, 1, 2}]>>, ProcOps)
     ELSE <<>>]

InitProc == KernelBoot(ProcProgs) /\ InitprocOnly /\ RestIdle

NextProc ==
  \/ run_tasks
  \/ \E t \in Tasks : sys_yield(t)
  \/ \E t \in Tasks : timer_interrupt(t)
  \/ \E t \in Tasks : sys_exit(t)
  \/ \E t \in Tasks : sys_fork(t)
  \/ \E t \in Tasks : \E name \in {-1, 2} : sys_spawn(t, name)
  \/ \E t \in Tasks : \E p \in -1..3 : sys_waitpid(t, p)

SpecProc == InitProc /\ [][NextProc]_vars

\* the indices in t's children list of the children that match p
Matching(t, p) == {k \in 1..Len(children[t]) : p = -1 \/ p = pid[children[t][k]]}

\* those of them that are zombies
MatchingZombies(t, p) == {k \in Matching(t, p) : task_status[children[t][k]] = "Zombie"}

Waits == 3

\* the exit codes the child chooses from
ExitCodes == {42, 9}

\* the task slot of the forked child
Child == 2

ChildCode == <<[ops |-> {"yield", "exit"}, ms |-> ExitCodes], [ops |-> {"exit"}, ms |-> ExitCodes]>>

ForkWaitProgs ==
  [t \in Tasks |->
     IF t = INITPROC
       THEN <<ForkTo(ChildCode)>>
            \o Repeat(<<[ops |-> {"waitpid", "yield"}, ms |-> {-1, 1}]>>, Waits)
       ELSE <<>>]

InitForkWait == KernelBoot(ForkWaitProgs) /\ InitprocOnly /\ RestIdle

NextForkWait ==
  \/ run_tasks
  \/ \E t \in Tasks : sys_yield(t)
  \/ \E t \in Tasks : timer_interrupt(t)
  \/ \E t \in Tasks : sys_exit(t)
  \/ \E t \in Tasks : sys_fork(t)
  \/ \E t \in Tasks : \E p \in {-1, 1} : sys_waitpid(t, p)

SpecForkWait == InitForkWait /\ [][NextForkWait]_vars

\* C12: a child that called exit(c) is a zombie holding c; the parent's waitpid, with
\* -1 or with the child's pid, returns the child's pid and stores c once the child has
\* exited, returns -2 while the child has not exited, and returns -1 once the child
\* has been reaped, whatever the order in which parent and child were scheduled.
C12_ForkExitWait ==
  [][/\ \A code \in ExitCodes :
          Calls("exit", Child, code) =>
            task_status'[Child] = "Zombie" /\ exit_code'[Child] = code
     /\ \A p \in {-1, 1} :
          Calls("waitpid", INITPROC, p) =>
            /\ task_status[Child] = "Zombie" =>
                 /\ ret'[INITPROC] = pid[Child]
                 /\ pid[Child] = 1
                 /\ exit_code[Child] \in ExitCodes
                 /\ out'[INITPROC] = exit_code[Child]
            /\ task_status[Child] \in {"Ready", "Running"} =>
                 ret'[INITPROC] = -2 /\ out'[INITPROC] = out[INITPROC]
            /\ task_status[Child] = "UnInit" =>
                 ret'[INITPROC] = -1 /\ out'[INITPROC] = out[INITPROC]
  ]_vars

\* the parent has reaped the child, which exited with 9 after yielding, and a later
\* waitpid found no child
C12_Witness ==
  /\ last_call \in {<<"waitpid", INITPROC, -1>>, <<"waitpid", INITPROC, 1>>}
  /\ ret[INITPROC] = -1
  /\ out[INITPROC] = 9
  /\ task_status[Child] = "UnInit"
  /\ upc[Child] = 3

\* C13: when sys_waitpid removes a zombie child from the caller's children list, the
\* removed handle is the only one left: the child is not in the ready queue, not the
\* processor's current task, on no wait queue and in no other place of a children
\* list; its TCB is dropped and its pid goes back to the allocator.
C13_ReapedIsLastHandle ==
  [][\A t \in Tasks : \A p \in -1..3 :
       (Calls("waitpid", t, p) /\ children'[t] # children[t]) =>
         \E k \in 1..Len(children[t]) :
           LET c == children[t][k] IN
           /\ children'[t] = SubSeq(children[t], 1, k - 1)
                                \o SubSeq(children[t], k + 1, Len(children[t]))
           /\ task_status[c] = "Zombie"
           /\ \A i \in 1..Len(ready_queue) : ready_queue[i] # c
           /\ current # c
           /\ \A m \in 1..Len(mutex_list) :
                \A i \in 1..Len(mutex_list[m].wait_queue) : mutex_list[m].wait_queue[i] # c
           /\ \A o \in Tasks : \A i \in 1..Len(children'[o]) : children'[o][i] # c
           /\ task_status'[c] = "UnInit"
           /\ pid_allocator'.recycled = Append(pid_allocator.recycled, pid[c])
  ]_vars

\* initproc has reaped a child of P that P's exit handed to it
C13_Witness ==
  /\ last_call = <<"waitpid", INITPROC, -1>>
  /\ ret[INITPROC] >= 2
  /\ pid_allocator.recycled # <<>>

\* the task has a TCB
Live(c) == task_status[c] # "UnInit"

\* the parent back-references and the children lists agree, and every task is at
\* most once in the children lists
TreeConsistent ==
  /\ \A c, p \in Tasks : (Live(c) /\ Live(p)) =>
        ((\E k \in 1..Len(children[p]) : children[p][k] = c) <=> parent[c] = p)
  /\ \A c \in Tasks : Sum([p \in Tasks |-> Occurrences(children[p], c)], Tasks) <= 1
  /\ \A c \in Tasks : Live(c) /\ parent[c] # NoTask => Live(parent[c])

\* C14: after any sequence of fork, spawn, exit and waitpid, a live task c is in the
\* children list of p exactly when c's parent is p, and no task is in two children
\* lists; the exit of a task other than initproc moves its children to the end of
\* initproc's list with initproc as their parent and leaves its own list empty.
C14_ParentChildren ==
  [][/\ TreeConsistent'
     /\ \A t \in Tasks : \A code \in {0, 5, 7, 2} :
          (Calls("exit", t, code) /\ pid[t] # IDLE_PID) =>
            /\ children'[t] = <<>>
            /\ children'[INITPROC] = children[INITPROC] \o children[t]
            /\ \A k \in 1..Len(children[t]) : parent'[children[t][k]] = INITPROC
  ]_vars

\* P has exited with two children, which are now children of initproc
C14_Witness ==
  /\ \E c \in Tasks : task_status[c] = "Zombie" /\ pid[c] = 1 /\ children[c] = <<>>
  /\ Cardinality({c \in Tasks : Live(c) /\ pid[c] > 1 /\ parent[c] = INITPROC}) = 2
  /\ Len(children[INITPROC]) = 3

----------------------------------------------------------------------------
(* SpecFrame: frame_alloc and drops of FrameTrackers in every order *)

InitFrame ==
  /\ Boot(NoProgs)
  /\ DetectorIdle
  /\ PagesIdle
  /\ \E l \in 1..2 : FramesReady(l, l + Frames)
  /\ FilesIdle
  /\ mm_op = <<>>
  /\ mm_panic = ""

NextFrame ==
  \/ frame_alloc
  \/ \E i \in 1..Frames : drop_FrameTracker(i)
  \/ \E i \in 1..Frames : write_frame(i)

SpecFrame == InitFrame /\ [][NextFrame]_vars

\* how many live FrameTrackers hold ppn
Holds(ppn) == Occurrences(trackers, ppn)

\* how often ppn is on the recycled stack
Recycled(ppn) == Occurrences(frame_allocator.recycled, ppn)

\* each frame of the range below the cursor is held once or recycled once, every
\* other frame is neither
FreeOrHeldOnce ==
  \A ppn \in PPNs :
    IF frame_range[1] <= ppn /\ ppn < frame_allocator.current
      THEN Holds(ppn) + Recycled(ppn) = 1
      ELSE Holds(ppn) + Recycled(ppn) = 0

\* C15: every page number of the allocator's range below the cursor is on the recycled
\* stack or held by one live FrameTracker, never both and never by two; frames at or
\* above the cursor are neither; frame_alloc never returns a page number that a live
\* FrameTracker holds.
C15_FreeOrHeldOnce ==
  [][/\ FreeOrHeldOnce'
     /\ (mm_op' = <<"frame_alloc">> /\ frame_ret' # <<>>) => Holds(frame_ret'[1]) = 0
     /\ mm_panic' = ""
  ]_vars

\* a frame was recycled and allocated again while another frame is recycled and a
\* third is held
C15_Witness ==
  /\ mm_op = <<"frame_alloc">>
  /\ frame_ret # <<>>
  /\ frame_allocator.recycled # <<>>
  /\ Len(trackers) = 2
  /\ frame_ret[1] < frame_allocator.current - 1

\* the number of frames in the range given to init
capacity == frame_range[2] - frame_range[1]

\* the statement of C16 as given: held plus recycled frames are the capacity
C16_HeldPlusRecycledIsCapacity ==
  Len(trackers) + Len(frame_allocator.recycled) = capacity

\* C16, amended: the frames held by live FrameTrackers, the frames on the recycled
\* stack and the frames from the cursor to the end of the range, which were never
\* allocated, together are the capacity.
C16_FramesAccounted ==
  /\ Len(trackers) + Len(frame_allocator.recycled)
       + (frame_allocator.end - frame_allocator.current) = capacity
  /\ frame_allocator.current = frame_allocator.end => C16_HeldPlusRecycledIsCapacity

\* some frames are held, some recycled and some were never allocated
C16_Witness ==
  /\ Len(trackers) >= 1
  /\ Len(frame_allocator.recycled) >= 1
  /\ frame_allocator.current < frame_allocator.end

\* the frames of q from the top of the stack down
Reverse(q) == [i \in 1..Len(q) |-> q[Len(q) + 1 - i]]

\* C17: frame_alloc returns the frame recycled most recently when the recycled stack
\* is not empty, else the frame at the cursor and advances the cursor by one, and
\* fails only when the cursor is at the end and the stack is empty. After k frames
\* were allocated and all k were dropped, the next k allocations return those k
\* frames and leave the cursor where it was.
C17_FrameAlloc ==
  [][/\ mm_op' = <<"frame_alloc">> =>
          LET a == frame_allocator IN
          IF a.recycled # <<>>
            THEN /\ frame_ret' = <<a.recycled[Len(a.recycled)]>>
                 /\ frame_allocator' = [a EXCEPT !.recycled = SubSeq(@, 1, Len(@) - 1)]
            ELSE IF a.current # a.end
              THEN /\ frame_ret' = <<a.current>>
                   /\ frame_allocator' = [a EXCEPT !.current = @ + 1]
              ELSE frame_ret' = <<>> /\ frame_allocator' = a
     /\ streak' =>
          LET k == Len(quiesced'.recycled)
              n == IF Len(since') < k THEN Len(since') ELSE k IN
          /\ k = quiesced'.current - frame_range[1]
          /\ SubSeq(since', 1, n) = SubSeq(Reverse(quiesced'.recycled), 1, n)
          /\ Len(since') <= k => frame_allocator'.current = quiesced'.current
          /\ Len(since') = k =>
               {since'[i] : i \in 1..k} = {quiesced'.recycled[i] : i \in 1..k}
  ]_vars

\* three frames were allocated and all dropped, not in the order of their page
\* numbers, and three allocations followed
C17_Witness ==
  /\ streak
  /\ Len(quiesced.recycled) = 3
  /\ Len(since) = 3
  /\ since = Reverse(quiesced.recycled)
  /\ quiesced.recycled[1] > quiesced.recycled[2]
  /\ mm_op = <<"frame_alloc">>

----------------------------------------------------------------------------
(* SpecPage: map, unmap and translate on one page table *)

\* the frames a mapping may name
DataPPNs == {8, 9}

\* the flags a mapping may ask for
MapFlags == {R, R + W + U}

\* the vpns the calls name: they share the leaf table (0 and 1), only the tables above
\* it (0 and Entries) or only the root (0 and the others)
CallVPNs == {0, 1, Entries, Entries * Entries, Entries * Entries * Entries - 1}

InitPage ==
  /\ Boot(NoProgs)
  /\ DetectorIdle
  /\ FramesReady(1, Frames + 4)
  /\ FilesIdle
  /\ PagesIdle
  /\ mm_op = <<>>
  /\ mm_panic = ""

NextPage ==
  \/ PageTable_new
  \/ \E vpn \in CallVPNs : \E ppn \in DataPPNs : \E flags \in MapFlags : map(vpn, ppn, flags)
  \/ \E vpn \in CallVPNs : unmap(vpn)
  \/ \E vpn \in CallVPNs : call_translate(vpn)

SpecPage == InitPage /\ [][NextPage]_vars

\* the panics of map and unmap on a leaf in the wrong state
MapUnmapPanics ==
  /\ \A vpn \in VPNs : \A ppn \in DataPPNs : \A flags \in MapFlags :
       (mm_op' = <<"map", vpn, ppn, flags>> /\ page_ops' # page_ops /\ mapped[vpn] # <<>>) =>
         mm_panic' = "vpn is mapped before mapping"
  /\ \A vpn \in VPNs :
       (mm_op' = <<"unmap", vpn>> /\ page_ops' # page_ops /\ mapped[vpn] = <<>>) =>
         mm_panic' # ""

\* C18: translate(vpn) returns the leaf entry (ppn, flags | V) for the vpns that are
\* mapped, and None for every other vpn, also for a vpn that was mapped and unmapped
\* and for a vpn never mapped that shares its tables with a mapped one; map on a
\* mapped vpn and unmap on a vpn not mapped panic.
C18_Translate ==
  [][/\ \A vpn \in VPNs :
          mm_op' = <<"translate", vpn>> =>
            translated' = IF mapped[vpn] = <<>>
                            THEN <<>>
                            ELSE <<PageTableEntry_new(mapped[vpn][1], WithV(mapped[vpn][2]))>>
     /\ MapUnmapPanics
  ]_vars

\* what the code does keep: the entry translate returns is valid exactly for the mapped
\* vpns and then is (ppn, flags | V); map and unmap panic as stated
TranslateValidIffMapped ==
  [][/\ \A vpn \in VPNs :
          mm_op' = <<"translate", vpn>> =>
            IF mapped[vpn] = <<>>
              THEN translated' = <<>> \/ ~is_valid(translated'[1])
              ELSE translated' = <<PageTableEntry_new(mapped[vpn][1], WithV(mapped[vpn][2]))>>
     /\ MapUnmapPanics
  ]_vars

----------------------------------------------------------------------------
(* SpecBuffer: translated_byte_buffer on an address space with some pages mapped *)

\* the pages of the address space: the four lowest and the highest
BufferVPNs == {0, 1, 2, 3, Entries * Entries * Entries - 1}

\* the frame of a page
DataPPN(vpn) == 8 + vpn

\* the pointers: at the start, just behind the start and at the last byte of the
\* lower pages and of the highest page of the address space
Pointers ==
  {p * PAGE_SIZE + o : p \in {0, 1, 2, -1}, o \in {0, 1, PAGE_SIZE - 1}}

\* the lengths: none, a byte, a page and a byte less or more, two pages, three pages
\* and a byte less
Lengths ==
  {0, 1, PAGE_SIZE - 1, PAGE_SIZE, PAGE_SIZE + 1, 2 * PAGE_SIZE, 3 * PAGE_SIZE - 1, 3 * PAGE_SIZE}

\* the buffers of the calls: in the lower pages, or in the highest page up to its end
Buffers ==
  {b \in Pointers \X Lengths :
     \/ b[1] >= 0 /\ b[1] + b[2] <= 4 * PAGE_SIZE
     \/ b[1] < 0 /\ b[1] + b[2] = 0}

InitBuffer == InitPage

NextBuffer ==
  \/ PageTable_new
  \/ \E vpn \in BufferVPNs : map(vpn, DataPPN(vpn), R + W + U)
  \/ /\ mm_op # <<>>
     /\ mm_op[1] # "translated_byte_buffer"
     /\ \E b \in Buffers : call_translated_byte_buffer(b[1], b[2])

SpecBuffer == InitBuffer /\ [][NextBuffer]_vars

\* the pages of [ptr, ptr + len), low to high
PagesOf(ptr, len) ==
  IF len = 0 THEN {} ELSE (ptr \div PAGE_SIZE)..((ptr + len - 1) \div PAGE_SIZE)

\* the part of page p that lies in [ptr, ptr + len), in the frame p is mapped to
SliceOf(p, ptr, len) ==
  [ppn |-> mapped[p % Cardinality(VPNs)][1],
   lo |-> IF ptr > p * PAGE_SIZE THEN ptr - p * PAGE_SIZE ELSE 0,
   hi |-> IF ptr + len < (p + 1) * PAGE_SIZE THEN ptr + len - p * PAGE_SIZE ELSE PAGE_SIZE]

\* the slices of [ptr, ptr + len), one per page, low to high
SlicesOf(ptr, len) ==
  [i \in 1..Cardinality(PagesOf(ptr, len)) |-> SliceOf(ptr \div PAGE_SIZE + i - 1, ptr, len)]

\* every page of [ptr, ptr + len) is mapped
AllMapped(ptr, len) == \A p \in PagesOf(ptr, len) : mapped[p % Cardinality(VPNs)] # <<>>

\* translated_byte_buffer returned the slices of the buffer b
ReturnsSlices(b) ==
  (mm_op' = <<"translated_byte_buffer", b[1], b[2]>> /\ AllMapped(b[1], b[2])) =>
    /\ mm_panic' = ""
    /\ slices' = SlicesOf(b[1], b[2])

\* C19: for every pointer and length whose pages are all mapped, translated_byte_buffer
\* returns one slice per page of [ptr, ptr + len), low to high, each the part of the
\* range inside that page, so that the lengths sum to len; for len = 0 the list is
\* empty.
C19_ByteBuffer == [][\A b \in Buffers : ReturnsSlices(b)]_vars

\* what the code does keep: the same for the buffers that do not end at the end of the
\* address space
ByteBufferBelowTop == [][\A b \in Buffers : b[1] >= 0 => ReturnsSlices(b)]_vars

\* a buffer over three pages that starts behind a page start and ends at a page end
\* was translated
ByteBufferSpansThreePages ==
  /\ mm_op = <<"translated_byte_buffer", 1, 3 * PAGE_SIZE - 1>>
  /\ Len(slices) = 3
  /\ slices[1].lo = 1 /\ slices[3].hi = PAGE_SIZE

----------------------------------------------------------------------------
(* SpecMmap: sys_mmap calls on the address space of a task *)

\* the arguments of the calls
Starts == {0, 1, PAGE_SIZE, 2 * PAGE_SIZE, 3 * PAGE_SIZE, MAXVA}
MmapLengths == {0, 1, PAGE_SIZE + 1}
Ports == {0, 1, 3, 6, 8, 11}

InitMmap == InitPage

NextMmap ==
  \/ PageTable_new
  \/ \E start \in Starts : \E len \in MmapLengths : \E port \in Ports : sys_mmap(start, len, port)

SpecMmap == InitMmap /\ [][NextMmap]_vars

\* the vpns of the pages of [start, start + len), rounded to page boundaries
MmapPages(start, len) ==
  IF len = 0 THEN {} ELSE (start \div PAGE_SIZE)..((start + len - 1) \div PAGE_SIZE)

\* the calls sys_mmap is to reject
Rejected(start, len, port) ==
  \/ start % PAGE_SIZE # 0
  \/ port \notin 1..7
  \/ start >= MAXVA
  \/ \E vpn \in MmapPages(start, len) : mapped[vpn] # <<>>

\* the flags of a page mapped for port: U and the R, W, X bits of port
PortFlags(port) ==
  U + (IF port % 2 = 1 THEN R ELSE 0) + (IF (port \div 2) % 2 = 1 THEN W ELSE 0)
    + (IF (port \div 4) % 2 = 1 THEN X ELSE 0)

----------------------------------------------------------------------------
(* SpecMunmap: a task maps and unmaps ranges of its address space with    *)
(* sys_mmap and sys_munmap                                                *)

\* the arguments of the calls: page-aligned starts with an even and with an odd page
\* number, a start that is not aligned, one and two pages
MunmapStarts == {0, 1, PAGE_SIZE, 2 * PAGE_SIZE, MAXVA}
MunmapLengths == {PAGE_SIZE, 2 * PAGE_SIZE}
MunmapPort == 3

InitMunmap == InitPage

NextMunmap ==
  \/ PageTable_new
  \/ \E start \in MunmapStarts : \E len \in MunmapLengths : sys_mmap(start, len, MunmapPort)
  \/ \E start \in MunmapStarts : \E len \in MunmapLengths : sys_munmap(start, len)

SpecMunmap == InitMunmap /\ [][NextMunmap]_vars

\* vpn is mapped: the page table translates it to a valid entry
IsMapped(pt, mem, vpn) == translate_valid(pt, mem, vpn) # <<>>

\* C21: sys_munmap returns -1 for every start that is not a multiple of the page
\* size, and for every page-aligned start < MAXVA and len for which sys_mmap(start,
\* len, port) has just returned 0, sys_munmap(start, len) returns 0 and leaves every
\* page of the range unmapped.
C21_MunmapRoundTrip ==
  [][\A start \in MunmapStarts : \A len \in MunmapLengths :
       mm_op' = <<"sys_munmap", start, len>> =>
         /\ start % PAGE_SIZE # 0 => munmap_ret' = -1
         /\ ( /\ mm_op = <<"sys_mmap", start, len, MunmapPort>>
              /\ mmap_ret = 0
              /\ start % PAGE_SIZE = 0
              /\ start < MAXVA ) =>
              /\ munmap_ret' = 0
              /\ \A vpn \in MmapPages(start, len) :
                   ~IsMapped(page_table', frame_bytes', vpn)
  ]_vars

\* what the code does: sys_munmap goes on to unmap_consecutive_area exactly for the
\* starts below MAXVA whose page number is even, aligned or not
MunmapTestsPageNumberParity ==
  [][\A start \in MunmapStarts : \A len \in MunmapLengths :
       mm_op' = <<"sys_munmap", start, len>> =>
         IF start >= MAXVA \/ (start \div PAGE_SIZE) % 2 = 1
           THEN munmap_ret' = -1 /\ UNCHANGED <<frame_bytes, mapped>>
           ELSE munmap_ret' = 0 <=>
                  \A vpn \in (start \div PAGE_SIZE)..((start + len - 1) \div PAGE_SIZE) :
                    IsMapped(page_table, frame_bytes, vpn)
  ]_vars

\* C30: when sys_munmap(start, len) returns -1 because some page of the range is not
\* mapped, no page of the range has been unmapped and the address space is as before
\* the call.
C30_FailingMunmapChangesNothing ==
  [][\A start \in MunmapStarts : \A len \in MunmapLengths :
       ( /\ mm_op' = <<"sys_munmap", start, len>>
         /\ page_ops' # page_ops
         /\ munmap_ret' = -1
         /\ \E vpn \in MmapPages(start, len) : ~IsMapped(page_table, frame_bytes, vpn) ) =>
         /\ \A vpn \in VPNs :
              IsMapped(page_table', frame_bytes', vpn) = IsMapped(page_table, frame_bytes, vpn)
         /\ UNCHANGED <<frame_bytes, mapped, page_table>>
  ]_vars

\* what holds of a failing sys_munmap: the pages of the range before the first page
\* that is not mapped have been unmapped, the others are as before
FailingMunmapUnmapsPrefix ==
  [][\A start \in MunmapStarts : \A len \in MunmapLengths :
       ( /\ mm_op' = <<"sys_munmap", start, len>>
         /\ page_ops' # page_ops
         /\ start < MAXVA /\ BitAnd_PAGE_SIZE(start) = 0
         /\ munmap_ret' = -1 ) =>
         \A vpn \in VPNs :
           IsMapped(page_table', frame_bytes', vpn) =
             ( /\ IsMapped(page_table, frame_bytes, vpn)
               /\ ~ ( /\ vpn \in MmapPages(start, len)
                      /\ \A u \in MmapPages(start, len) :
                           u <= vpn => IsMapped(page_table, frame_bytes, u) ) )
  ]_vars

----------------------------------------------------------------------------
(* SpecPipeEof: the parent makes a pipe and forks; the child closes its   *)
(* read end, writes "abc", closes its write end and exits; the parent,    *)
(* which closes its own write end or keeps it, reads                      *)

\* the number of reads of the parent
Reads == 3

\* the bytes of "abc"
ABC == <<97, 98, 99>>

\* the lengths the parent asks for
ReadLengths == {2, 3, 4}

PipeEofChild ==
  <<I("close", {3}), I("write", {<<4, ABC>>}), I("close", {4}), Exit>>

PipeEofProgs(closes) ==
  [t \in Tasks |->
     IF t = INITPROC
       THEN <<I("pipe", {}), ForkTo(PipeEofChild)>>
            \o (IF closes THEN <<I("close", {4})>> ELSE <<>>)
            \o Repeat(<<I("read", {<<3, n>> : n \in ReadLengths})>>, Reads)
       ELSE <<>>]

InitPipeEof ==
  /\ \E closes \in BOOLEAN : KernelBoot(PipeEofProgs(closes))
  /\ InitprocOnly
  /\ RestIdle

NextPipeEof ==
  \/ run_tasks
  \/ \E t \in Tasks : timer_interrupt(t)
  \/ \E t \in Tasks : sys_exit(t)
  \/ \E t \in Tasks : sys_fork(t)
  \/ \E t \in Tasks : sys_pipe(t)
  \/ \E t \in Tasks : \E fd \in {3, 4} : sys_close(t, fd)
  \/ \E t \in Tasks : \E n \in ReadLengths : sys_read(t, 3, n)
  \/ \E t \in Tasks : sys_write(t, 4, ABC)
  \/ \E t \in Tasks : Pipe_read_resume(t)

SpecPipeEof == InitPipeEof /\ [][NextPipeEof]_vars

\* the parent's program closes the parent's write end
ParentCloses == \E i \in 1..Len(prog[INITPROC]) : prog[INITPROC][i].ops = {"close"}

\* task t has run its program to the end
Finished(t) == upc[t] = Len(prog[t]) + 1 /\ kpc[t] = "user"

\* a read of task t on the pipe returns in this step
ReadReturns(t) ==
  /\ kpc'[t] = "user"
  /\ panicked' = ""
  /\ \/ kpc[t] = "Pipe_read"
     \/ /\ upc'[t] = upc[t] + 1
        /\ last_call'[1] = "read"
        /\ last_call'[2] = t
        /\ FileOf(t, last_call'[3][1]) = "read_end"

\* a read returns with fewer bytes than requested only when the buffer is empty and
\* every write end is closed
ShortReadOnlyAtEof ==
  \A t \in Tasks :
    (ReadReturns(t) /\ ret'[t] < io'[t].want) =>
      /\ available_read(ring') = 0
      /\ write_end_count' = 0

\* the parent waits in a read on the empty pipe for a writer when the only
\* write end left is its own: no task can write or close any more
WaitsForever ==
  /\ task_status[Child] = "Zombie"
  /\ kpc[INITPROC] = "Pipe_read"
  /\ available_read(ring) = 0
  /\ ~all_write_ends_closed

\* the parent's reads have received "abc" and its last read returned 0
ReceivedAbcThenZero ==
  /\ received[INITPROC] = ABC
  /\ ret[INITPROC] = 0
  /\ io[INITPROC].op = "read"
  /\ io[INITPROC].data = <<>>

\* C22 as stated: in the scenario, whether or not the parent closes its own write
\* end (the scenario names no such step), the parent's reads receive "abc" and its
\* next read returns 0 instead of waiting forever; and a read returns with fewer
\* bytes than requested only when the buffer is empty and every write end is closed.
C22_PipeEofAsStated ==
  /\ [](~WaitsForever)
  /\ [](Finished(INITPROC) => ReceivedAbcThenZero)
  /\ [][ShortReadOnlyAtEof]_vars

\* C22 (amended): when the parent closes its own write end after the fork, its reads
\* receive "abc" and its next read returns 0, and it never waits for a writer that
\* cannot come; when it keeps its write end, no read of it returns 0.  A read returns
\* with fewer bytes than requested only when the buffer is empty and every write end
\* of the pipe has been closed.
C22_PipeEof ==
  /\ [](ParentCloses => ~WaitsForever)
  /\ []((ParentCloses /\ Finished(INITPROC)) => ReceivedAbcThenZero)
  /\ []((~ParentCloses /\ io[INITPROC].op = "read" /\ kpc[INITPROC] = "user") =>
          ret[INITPROC] > 0)
  /\ [][ShortReadOnlyAtEof]_vars

\* the parent closed its write end, its reads received "abc" after the child's exit
\* and its last read, of 4 bytes, returned 0
C22_Witness ==
  /\ ParentCloses
  /\ Finished(INITPROC)
  /\ ReceivedAbcThenZero
  /\ task_status[Child] = "Zombie"
  /\ last_call = <<"read", INITPROC, <<3, 4>>>>

----------------------------------------------------------------------------
(* SpecPipeFull: a task whose pipe holds all but k bytes of its capacity  *)
(* forks a child, which reads from the pipe or does not, and writes more  *)
(* than k bytes                                                           *)

\* the most free bytes of the buffer when the write is issued
Spare == 2

\* the bytes the buffer holds before the write, the oldest first
OldBytes(k) == [i \in 1..(RING_BUFFER_SIZE - k) |-> i]

\* the n bytes the writer passes to sys_write
NewBytes(n) == [i \in 1..n |-> 200 + i]

\* a ring buffer that holds the bytes given from slot head on
RingHolding(bytes, head) ==
  [arr |-> [i \in 0..(RING_BUFFER_SIZE - 1) |->
              LET at == (i + RING_BUFFER_SIZE - head) % RING_BUFFER_SIZE IN
              IF at < Len(bytes) THEN bytes[at + 1] ELSE 0],
   head |-> head,
   tail |-> (head + Len(bytes)) % RING_BUFFER_SIZE,
   status |-> IF Len(bytes) = 0 THEN "Empty"
              ELSE IF Len(bytes) = RING_BUFFER_SIZE THEN "Full" ELSE "Normal"]

\* the child reads once, 1 or 2 bytes, or never
ReaderCode(reads) ==
  IF reads THEN <<I("read", {<<3, 1>>, <<3, 2>>}), Exit>> ELSE <<Exit>>

PipeFullProgs(k, reads) ==
  [t \in Tasks |->
     IF t = INITPROC
       THEN <<ForkTo(ReaderCode(reads)),
              I("write", {<<4, NewBytes(k + 1)>>, <<4, NewBytes(k + 2)>>})>>
       ELSE <<>>]

InitPipeFull ==
  \E k \in 0..Spare : \E head \in {0, RING_BUFFER_SIZE - 1} : \E reads \in BOOLEAN :
    /\ KernelBoot(PipeFullProgs(k, reads))
    /\ pid = [t \in Tasks |-> 0]
    /\ parent = [t \in Tasks |-> NoTask]
    /\ children = [t \in Tasks |-> <<>>]
    /\ exit_code = [t \in Tasks |-> 0]
    /\ out = [t \in Tasks |-> 0]
    /\ pid_allocator = [current |-> 1, recycled |-> <<>>]
    /\ fd_table = [t \in Tasks |->
                     IF t = INITPROC THEN StdioTable \o <<"read_end", "write_end">> ELSE <<>>]
    /\ DetectorIdle
    /\ MemoryIdle
    /\ StorageIdle
    /\ ring = RingHolding(OldBytes(k), head)
    /\ ring_borrowed = FALSE
    /\ io = [t \in Tasks |-> [op |-> "", want |-> 0, data |-> <<>>, done |-> 0]]
    /\ received = [t \in Tasks |-> <<>>]
    /\ sent = OldBytes(k)

NextPipeFull ==
  \/ run_tasks
  \/ \E t \in Tasks : timer_interrupt(t)
  \/ \E t \in Tasks : sys_exit(t)
  \/ \E t \in Tasks : sys_fork(t)
  \/ \E t \in Tasks : \E n \in 1..2 : sys_read(t, 3, n)
  \/ \E t \in Tasks : \E n \in 1..(Spare + 2) : sys_write(t, 4, NewBytes(n))
  \/ \E t \in Tasks : Pipe_write_resume(t)

SpecPipeFull == InitPipeFull /\ [][NextPipeFull]_vars

\* the unread bytes of a ring buffer, the oldest first
Contents(rb) ==
  [i \in 1..available_read(rb) |-> rb.arr[(rb.head + i - 1) % RING_BUFFER_SIZE]]

\* the bytes read from the pipe so far, by the child, its only reader
Consumed == Len(received[Child])

\* the free bytes of the buffer when the write was issued
SpareAtWrite == RING_BUFFER_SIZE - Len(sent) + io[INITPROC].done

\* the write of the task t is in progress, suspended in its loop
InWrite(t) == io[t].op = "write" /\ kpc[t] = "Pipe_write"

\* C23: a write of N bytes issued when the buffer holds 32 - k bytes (N > k) has
\* transferred exactly k bytes and has not returned as long as no reader has consumed
\* data; the writer is then suspended with the buffer full and not borrowed, and
\* every retry leaves it so. No unread byte is ever overwritten: the buffer holds
\* the bytes written and not yet read, in order. When a reader has freed space, the
\* retry writes the next bytes of the buffer passed, as many as fit, and returns when
\* all N are written.
C23_PipeWriteBlocks ==
  /\ [](panicked = "" /\ ~ring_borrowed)
  /\ [](Contents(ring) = SubSeq(sent, Consumed + 1, Len(sent)))
  /\ [](received[Child] = SubSeq(sent, 1, Consumed))
  /\ []((io[INITPROC].op = "write" /\ Consumed = 0) =>
          /\ InWrite(INITPROC)
          /\ io[INITPROC].done = SpareAtWrite
          /\ io[INITPROC].done < io[INITPROC].want
          /\ ring.status = "Full"
          /\ sent = OldBytes(SpareAtWrite) \o SubSeq(io[INITPROC].data, 1, SpareAtWrite))
  /\ [][(InWrite(INITPROC) /\ current = INITPROC /\ vars' # vars) =>
          LET n == Min(available_write(ring), io[INITPROC].want - io[INITPROC].done) IN
          /\ io'[INITPROC].done = io[INITPROC].done + n
          /\ sent' = sent \o SubSeq(io[INITPROC].data, io[INITPROC].done + 1,
                                    io[INITPROC].done + n)
          /\ IF io'[INITPROC].done = io[INITPROC].want
               THEN kpc'[INITPROC] = "user" /\ ret'[INITPROC] = io[INITPROC].want
               ELSE InWrite(INITPROC)' /\ ring'.status = "Full" /\ ~ring_borrowed'
     ]_vars

\* the write of 4 bytes found 2 free bytes at the end of the array, wrote them and
\* was suspended; the child read 1 byte; the retry wrote the third byte into the
\* slot that read freed and the writer is suspended again
C23_Witness ==
  /\ InWrite(INITPROC)
  /\ io[INITPROC].want = 4
  /\ io[INITPROC].done = 3
  /\ received[Child] = <<1>>
  /\ ring.head = 0
  /\ ring.status = "Full"
  /\ ring.arr[RING_BUFFER_SIZE - 1] = 203
  /\ dispatched[INITPROC] >= 2

----------------------------------------------------------------------------
(* SpecCache: callers get blocks from the cache, keep or drop the Arcs,   *)
(* modify the blocks they hold and call block_cache_sync_all              *)

InitCache == Boot(NoProgs) /\ RestIdle

NextCache ==
  \/ \E b \in Blocks : get_block_cache(b)
  \/ \E b \in Blocks : drop_handle(b)
  \/ \E b \in Blocks : \E v \in Values : BlockCache_modify(b, v)
  \/ block_cache_sync_all

SpecCache == InitCache /\ [][NextCache]_vars

\* the block ids of the entries of a queue
Cached(q) == {q[k].block_id : k \in 1..Len(q)}

\* the step is a call of get_block_cache(b)
GetsBlock(b) == cache_op' = <<"get_block_cache", b>> /\ cache_ops' = cache_ops + 1

\* C24: the cache never holds more than BLOCK_CACHE_SIZE entries (nor two of one
\* block). A request for a block that is not cached while the cache is full removes
\* exactly the first entry of the queue no caller holds an Arc of, and panics, with
\* nothing changed, when callers hold every entry; an entry a caller holds is never
\* removed. A request for a cached block returns the entry that is there: no entry
\* leaves or enters the queue and the device is not read.
C24_Eviction ==
  /\ [](/\ Len(cache_queue) <= BLOCK_CACHE_SIZE
        /\ \A k, l \in 1..Len(cache_queue) : cache_queue[k].block_id = cache_queue[l].block_id => k = l)
  /\ [][\A k \in 1..Len(cache_queue) :
          cache_queue[k].handles > 0 => cache_queue[k].block_id \in Cached(cache_queue')]_vars
  /\ [][\A b \in Blocks : GetsBlock(b) =>
          IF b \in Cached(cache_queue)
            THEN /\ [k \in 1..Len(cache_queue) |-> cache_queue[k].block_id] =
                      [k \in 1..Len(cache_queue') |-> cache_queue'[k].block_id]
                 /\ cache_io' = <<>>
                 /\ cache_panic' = ""
                 /\ UNCHANGED device
            ELSE IF Len(cache_queue) < BLOCK_CACHE_SIZE
              THEN /\ Cached(cache_queue') = Cached(cache_queue) \cup {b}
                   /\ cache_panic' = ""
            ELSE IF \A k \in 1..Len(cache_queue) : cache_queue[k].handles > 0
              THEN /\ cache_panic' = "Run out of BlockCache!"
                   /\ UNCHANGED <<cache_queue, device>>
            ELSE \E k \in 1..Len(cache_queue) :
                   /\ cache_queue[k].handles = 0
                   /\ \A l \in 1..(k - 1) : cache_queue[l].handles > 0
                   /\ Cached(cache_queue') = (Cached(cache_queue) \ {cache_queue[k].block_id}) \cup {b}
                   /\ cache_panic' = ""
     ]_vars

\* the cache is full, callers hold the first entry and not the second and the third;
\* the request for a fourth block has removed the second entry
C24_Witness ==
  /\ Len(cache_queue) = BLOCK_CACHE_SIZE
  /\ cache_op = <<"get_block_cache", 3>>
  /\ [k \in 1..Len(cache_queue) |-> cache_queue[k].block_id] = <<0, 2, 3>>
  /\ cache_queue[1].handles > 0
  /\ cache_queue[2].handles = 0
  /\ cache_panic = ""

\* the content a caller observes for block b through the cache: that of the entry
\* get_block_cache returns
Observed(b) ==
  LET r == BlockCacheManager_get_block_cache(cache_queue, device, b) IN r.queue[r.at].cache

\* some entry of the queue is free, or the queue is not full
CanGet(b) == BlockCacheManager_get_block_cache(cache_queue, device, b).panic = ""

\* the write_block calls of the last operation
Written == {cache_io[i][2] : i \in {j \in 1..Len(cache_io) : cache_io[j][1] = "write_block"}}

\* C25: the content observed for a block through the cache is the content last
\* written to it through the cache. A dirty block is written to the device when it is
\* evicted and on block_cache_sync_all and a clean block is never written; after
\* block_cache_sync_all every cached block is clean and the device holds its content.
C25_WriteBack ==
  /\ [](\A b \in Blocks :
          /\ CanGet(b) => Observed(b) = latest[b]
          /\ b \notin Cached(cache_queue) => device[b] = latest[b]
          /\ \A k \in 1..Len(cache_queue) :
               (cache_queue[k].block_id = b /\ ~cache_queue[k].modified) => device[b] = latest[b])
  /\ [][\A b \in Blocks :
          /\ b \in Written' /\ cache_ops' # cache_ops =>
               \E k \in 1..Len(cache_queue) :
                  /\ cache_queue[k].block_id = b
                  /\ cache_queue[k].modified
                  /\ device'[b] = cache_queue[k].cache
                  /\ \/ cache_op' = <<"sync_all">>
                     \/ cache_op'[1] = "get_block_cache" /\ b \notin Cached(cache_queue')
          /\ ( /\ cache_ops' # cache_ops
               /\ \E k \in 1..Len(cache_queue) : cache_queue[k].block_id = b /\ cache_queue[k].modified
               /\ \/ cache_op' = <<"sync_all">>
                  \/ b \notin Cached(cache_queue') ) => b \in Written'
          /\ b \notin Written' \/ cache_ops' = cache_ops => device'[b] = device[b]
     ]_vars
  /\ [](cache_op = <<"sync_all">> =>
          \A k \in 1..Len(cache_queue) :
            ~cache_queue[k].modified /\ device[cache_queue[k].block_id] = cache_queue[k].cache)

\* block 0 was modified to 2 and its Arc dropped; the request for a fourth block has
\* evicted it and written it to the device, and a caller that gets block 0 now
\* observes 2
C25_Witness ==
  /\ cache_op = <<"get_block_cache", 3>>
  /\ cache_io = <<<<"write_block", 0>>, <<"read_block", 3>>>>
  /\ 0 \notin Cached(cache_queue)
  /\ device[0] = 2
  /\ latest[0] = 2
  /\ CanGet(0)
  /\ Observed(0) = 2

----------------------------------------------------------------------------
(* SpecBitmap: alloc and dealloc on a Bitmap of BitmapBlocks blocks that  *)
(* starts with some bits set                                              *)

\* the words a block's first word that is not full starts with
StartWords == {{}, {0}, {1}, 0..(WordBits - 2), u64_MAX \ {5}, u64_MAX}

\* the numbers of full words a block starts with
StartFull == {0, 1, BlockWords - 1, BlockWords}

\* the blocks after the first start as one of these
LaterBlocks ==
  {BlockWith(0, {}), BlockWith(0, u64_MAX \ {5}), BlockWith(BlockWords - 1, 0..(WordBits - 2)),
   BlockWith(BlockWords, {})}

\* the bits dealloc is called with
DeallocBits ==
  {0, 5, WordBits - 1, WordBits, BLOCK_BITS - 1, BLOCK_BITS, BitmapBlocks * BLOCK_BITS - 1}

InitBitmap ==
  /\ Boot(NoProgs)
  /\ DetectorIdle /\ MemoryIdle /\ PipesIdle /\ CacheIdle /\ DirIdle /\ copied = <<>>
  /\ \E f \in StartFull : \E w \in StartWords :
       \E later \in [1..(BitmapBlocks - 1) -> LaterBlocks] :
          bitmap = [b \in 0..(BitmapBlocks - 1) |-> IF b = 0 THEN BlockWith(f, w) ELSE later[b]]
  /\ bitmap_panic = ""
  /\ bitmap_op = <<>>
  /\ bitmap_prev = bitmap
  /\ bitmap_ops = 0

NextBitmap ==
  \/ Bitmap_alloc
  \/ \E bit \in DeallocBits : Bitmap_dealloc(bit)
  \/ bitmap_op # <<>> /\ bitmap_op[1] = "alloc" /\ bitmap_op[2] >= 0 /\ Bitmap_dealloc(bitmap_op[2])

SpecBitmap == InitBitmap /\ [][NextBitmap]_vars

\* every index of the bitmap
AllBits == 0..(BitmapBlocks * BLOCK_BITS - 1)

\* bit i of the blocks bm is set: the blocks in order, in a block the words in order,
\* in a word from the least significant bit
Bit(bm, i) == (i % WordBits) \in bm[i \div BLOCK_BITS][(i % BLOCK_BITS) \div WordBits]

\* the blocks bm and bm2 differ in bit i and in no other
DifferIn(bm, bm2, i) ==
  /\ Bit(bm, i) # Bit(bm2, i)
  /\ \A b \in 0..(BitmapBlocks - 1) : \A w \in 0..(BlockWords - 1) :
       IF b = i \div BLOCK_BITS /\ w = (i % BLOCK_BITS) \div WordBits
         THEN bm[b][w] \ {i % WordBits} = bm2[b][w] \ {i % WordBits}
         ELSE bm[b][w] = bm2[b][w]

\* C26: Bitmap::alloc returns the lowest-numbered clear bit and sets exactly that
\* bit, so the index was not allocated; it returns None exactly when every bit is set,
\* and then changes nothing. dealloc(bit) of a set bit clears exactly that bit, and of
\* a clear bit fails its assertion; dealloc of the index the alloc before it returned
\* restores the bitmap.
C26_Bitmap ==
  [][/\ (bitmap_ops' # bitmap_ops /\ bitmap_op'[1] = "alloc") =>
          LET pos == bitmap_op'[2] IN
          /\ pos = -1 <=> \A i \in AllBits : Bit(bitmap, i)
          /\ pos = -1 => UNCHANGED bitmap
          /\ pos # -1 =>
               /\ pos \in AllBits
               /\ ~Bit(bitmap, pos)
               /\ \A i \in 0..(pos - 1) : Bit(bitmap, i)
               /\ Bit(bitmap', pos)
               /\ DifferIn(bitmap, bitmap', pos)
          /\ bitmap_panic' = ""
     /\ (bitmap_ops' # bitmap_ops /\ bitmap_op'[1] = "dealloc") =>
          LET bit == bitmap_op'[2] IN
          IF Bit(bitmap, bit)
            THEN /\ ~Bit(bitmap', bit)
                 /\ DifferIn(bitmap, bitmap', bit)
                 /\ bitmap_panic' = ""
                 /\ (bitmap_op = <<"alloc", bit>> => bitmap' = bitmap_prev)
            ELSE bitmap_panic' # "" /\ UNCHANGED bitmap
    ]_vars

\* the first block is full and the first word of the second has one clear bit above
\* set bits: alloc has returned BLOCK_BITS + 5
C26_Witness ==
  /\ bitmap_op = <<"alloc", BLOCK_BITS + 5>>
  /\ bitmap[1][0] = u64_MAX
  /\ bitmap_prev[1][0] = u64_MAX \ {5}

----------------------------------------------------------------------------
(* SpecUnlink: Inode::unlink on a root directory that holds up to         *)
(* MaxEntries records, names may repeat                                   *)

\* the records of the root directory at the start
MaxEntries == 3

\* the names and the inode ids of the records
Names == {"a", "b"}
InodeIds == {1, 2}
DirEntries == [name : Names, inode_id : InodeIds]

\* the sequences over S of length n
RECURSIVE SeqsOf(_, _)
SeqsOf(S, n) ==
  IF n = 0 THEN {<<>>}
  ELSE {Append(q, x) : q \in SeqsOf(S, n - 1), x \in S}

InitUnlink ==
  /\ Boot(NoProgs)
  /\ DetectorIdle /\ MemoryIdle /\ PipesIdle /\ CacheIdle /\ BitmapIdle /\ copied = <<>>
  /\ \E n \in 0..MaxEntries : \E data \in SeqsOf(DirEntries, n) :
       root_inode = [size |-> n * DIRENT_SZ, data |-> data]
  /\ dir_op = <<>>
  /\ dir_prev = root_inode
  /\ dir_ops = 0

NextUnlink == \E name \in Names \cup {"c"} : Inode_unlink(name)

SpecUnlink == InitUnlink /\ [][NextUnlink]_vars

\* the records of a directory: those below its size
Records(disk_inode) == SubSeq(disk_inode.data, 1, disk_inode.size \div DIRENT_SZ)

\* how many records of the sequence are e
CountOf(records, e) == Cardinality({k \in 1..Len(records) : records[k] = e})

\* C27: unlink(name) on a directory that contains name returns 0, stores the last
\* record in the place of the first record with that name and makes the directory one
\* record shorter: the other records stay where they are, and as a multiset the
\* records are the former ones less that record (also when it is the last one).
\* unlink of a name the directory lacks returns -1 and changes nothing.
C27_Unlink ==
  [][\A name \in Names \cup {"c"} :
       (dir_ops' # dir_ops /\ dir_op'[1] = "unlink" /\ dir_op'[2] = name) =>
         LET old == Records(root_inode)
             new == Records(root_inode')
             at == {k \in 1..Len(old) : old[k].name = name} IN
         IF at = {}
           THEN dir_op'[3] = -1 /\ UNCHANGED root_inode
           ELSE LET i == CHOOSE k \in at : \A l \in at : k <= l IN
                /\ dir_op'[3] = 0
                /\ Len(new) = Len(old) - 1
                /\ root_inode'.size = root_inode.size - DIRENT_SZ
                /\ \A k \in 1..Len(new) : new[k] = IF k = i THEN old[Len(old)] ELSE old[k]
                /\ \A e \in DirEntries :
                     CountOf(new, e) = CountOf(old, e) - (IF e = old[i] THEN 1 ELSE 0)
    ]_vars

\* the directory held records named a, b, a; unlink("a") has put the last record in
\* the place of the first and the directory holds two records
C27_Witness ==
  /\ dir_op = <<"unlink", "a", 0>>
  /\ Records(dir_prev) = <<[name |-> "a", inode_id |-> 1], [name |-> "b", inode_id |-> 1],
                           [name |-> "a", inode_id |-> 2]>>
  /\ Records(root_inode) = <<[name |-> "a", inode_id |-> 2], [name |-> "b", inode_id |-> 1]>>

----------------------------------------------------------------------------
(* The accounting of a release, under Spec                                *)

\* C28: sys_mutex_unlock by thread t, a holder of mutex r, decreases allocation[t][r]
\* by one and increases available[r] by one and changes no other entry of the
\* matrices; when the unlock hands the mutex to a waiter, that waiter's allocation
\* entry is 1 and available[r] is 0 once its lock has returned.
C28_UnlockAccounting ==
  /\ [][\A t \in Tasks : \A r \in MutexIds :
          (Calls("unlock", t, r) /\ r \in held[t] /\ panicked' = "") =>
             /\ allocation' = [allocation EXCEPT ![t][r] = @ - 1]
             /\ available' = [available EXCEPT ![r] = @ + 1]
             /\ need' = need
     ]_vars
  /\ [][\A w \in Tasks :
          (kpc[w] = "MutexBlocking_lock" /\ kpc'[w] = "user") =>
             allocation'[w][kmx[w]] = 1 /\ available'[kmx[w]] = 0
     ]_vars

----------------------------------------------------------------------------
(* The safety test and the pending request, under SpecDetect              *)

\* the verdict of the safety test on the process state b in which need[t][r] is
\* raised by one for the request of thread t for resource r
VerdictWithRequest(b, t, r) ==
  LET procs == 0..(b.num_processes - 1)
      nd == [i \in procs |-> [j \in Resources |-> b.max[i][j] - b.allocation[i][j]]]
      avail == [j \in Resources |->
                  b.TOTAL_AVAILABLE[j] - Sum([i \in procs |-> b.allocation[i][j]], procs)]
  IN DetectLoop(b, [nd EXCEPT ![t][r] = @ + 1], avail, [i \in procs |-> FALSE])

\* C29: the safety test that sys_mutex_lock and sys_semaphore_down run takes the
\* pending request into account: whichever thread t of the process calls, for
\* whichever resource r, the verdict it gets is that of the test on the matrices in
\* which need[t][r] is raised by one.
C29_PendingRequest ==
  verdict # <<>> =>
    \A t \in 0..(banker.num_processes - 1) : \A r \in Resources :
      verdict[1] = VerdictWithRequest(banker, t, r)

----------------------------------------------------------------------------
(* The framed segments of the address space and its page table, under     *)
(* SpecMunmap                                                             *)

\* the segments that claim vpn
Claiming(vpn) == {k \in 1..Len(areas) : areas[k].start_vpn <= vpn /\ vpn < areas[k].end_vpn}

\* every mapped vpn is claimed by exactly one segment and resolves to the frame that
\* segment owns, every vpn a segment claims is mapped, and the segments are disjoint
SegmentsMatchPageTable ==
  /\ \A vpn \in VPNs :
       IsMapped(page_table, frame_bytes, vpn) =>
         \E k \in Claiming(vpn) :
            /\ Claiming(vpn) = {k}
            /\ PageTableEntry_ppn(translate_valid(page_table, frame_bytes, vpn)[1]) =
                 areas[k].data_frames[vpn]
  /\ \A vpn \in VPNs : Claiming(vpn) # {} => IsMapped(page_table, frame_bytes, vpn)
  /\ \A vpn \in VPNs : Cardinality(Claiming(vpn)) <= 1

\* the step is a call of sys_mmap or sys_munmap that returns 0
SuccessfulCall ==
  /\ page_ops' = page_ops + 1
  /\ mm_panic' = ""
  /\ \/ mm_op'[1] = "sys_mmap" /\ mmap_ret' = 0
     \/ mm_op'[1] = "sys_munmap" /\ munmap_ret' = 0

\* C31: every successful sys_mmap and sys_munmap keeps the property (which a fresh
\* address space has): every vpn the page table maps is claimed by exactly one framed
\* segment and resolves to that segment's frame, every vpn a framed segment claims is
\* mapped, and the framed segments are pairwise disjoint.
C31_SegmentsAndPageTable ==
  [][(PageTableLive /\ SegmentsMatchPageTable /\ SuccessfulCall)
       => SegmentsMatchPageTable']_vars

\* what the code keeps: every vpn the page table maps is claimed by a segment, and the
\* segment inserted last among those that claim it owns the frame it resolves to; a
\* successful sys_munmap leaves the segments as they are
MappedPagesBelongToNewestSegment ==
  /\ [](PageTableLive =>
          \A vpn \in VPNs :
            IsMapped(page_table, frame_bytes, vpn) =>
              /\ Claiming(vpn) # {}
              /\ LET k == CHOOSE l \in Claiming(vpn) : \A j \in Claiming(vpn) : j <= l IN
                 PageTableEntry_ppn(translate_valid(page_table, frame_bytes, vpn)[1]) =
                   areas[k].data_frames[vpn])
  /\ [][mm_op'[1] = "sys_munmap" => UNCHANGED <<areas, trackers, frame_allocator>>]_vars

----------------------------------------------------------------------------
(* SpecPipeFifo: a parent and its forked child both hold both ends of a   *)
(* pipe and each issue two reads and writes of their choice, in every     *)
(* interleaving                                                           *)

\* the bytes task t passes to a sys_write of n bytes
BytesOf(t, n) == [i \in 1..n |-> 100 * t + i]

\* a read of 1 or 2 bytes or a write of 1 to 3 bytes, as the task chooses
PipeOp(t) ==
  [ops |-> {"read", "write"},
   ms |-> {<<3, 1>>, <<3, 2>>} \cup {<<4, BytesOf(t, n)>> : n \in 1..3}]

PipeFifoProgs ==
  [t \in Tasks |->
     IF t = INITPROC
       THEN <<ForkTo(<<PipeOp(Child), PipeOp(Child), Exit>>),
              PipeOp(INITPROC), PipeOp(INITPROC)>>
       ELSE <<>>]

\* the pipe is empty, holds all but one byte or is full, from slot 0 or the last slot
InitPipeFifo ==
  \E k \in {0, 1, RING_BUFFER_SIZE} : \E head \in {0, RING_BUFFER_SIZE - 1} :
    /\ KernelBoot(PipeFifoProgs)
    /\ pid = [t \in Tasks |-> 0]
    /\ parent = [t \in Tasks |-> NoTask]
    /\ children = [t \in Tasks |-> <<>>]
    /\ exit_code = [t \in Tasks |-> 0]
    /\ out = [t \in Tasks |-> 0]
    /\ pid_allocator = [current |-> 1, recycled |-> <<>>]
    /\ fd_table = [t \in Tasks |->
                     IF t = INITPROC THEN StdioTable \o <<"read_end", "write_end">> ELSE <<>>]
    /\ DetectorIdle
    /\ MemoryIdle
    /\ StorageIdle
    /\ ring = RingHolding(OldBytes(k), head)
    /\ ring_borrowed = FALSE
    /\ io = [t \in Tasks |-> [op |-> "", want |-> 0, data |-> <<>>, done |-> 0]]
    /\ received = [t \in Tasks |-> <<>>]
    /\ sent = OldBytes(k)

NextPipeFifo ==
  \/ run_tasks
  \/ \E t \in Tasks : timer_interrupt(t)
  \/ \E t \in Tasks : sys_exit(t)
  \/ \E t \in Tasks : sys_fork(t)
  \/ \E t \in Tasks : \E n \in 1..2 : sys_read(t, 3, n)
  \/ \E t \in Tasks : \E n \in 1..3 : sys_write(t, 4, BytesOf(t, n))
  \/ \E t \in Tasks : Pipe_read_resume(t)
  \/ \E t \in Tasks : Pipe_write_resume(t)

SpecPipeFifo == InitPipeFifo /\ [][NextPipeFifo]_vars

\* the number of bytes the reads have delivered so far, to all readers
Delivered == Sum([t \in Tasks |-> Len(received[t])], Tasks)

\* C32: the bytes the reads deliver are, in the order of delivery, the bytes written
\* in the order they were written: each read delivers the next bytes written and not
\* yet delivered, and the buffer holds exactly the bytes written and not delivered,
\* in order (none lost, duplicated or overwritten). In every state available_read +
\* available_write = 32, the status is Empty or Full only when head = tail, and
\* Normal only when head # tail.
C32_PipeFifo ==
  /\ [](panicked = "")
  /\ [](Delivered <= Len(sent) /\ Contents(ring) = SubSeq(sent, Delivered + 1, Len(sent)))
  /\ [][\A t \in Tasks :
          received'[t] # received[t] =>
            /\ received'[t] = received[t] \o SubSeq(sent, Delivered + 1, Delivered')
            /\ Delivered' > Delivered
            /\ \A u \in Tasks \ {t} : received'[u] = received[u]
            /\ sent' = sent
     ]_vars
  /\ [](available_read(ring) + available_write(ring) = RING_BUFFER_SIZE)
  /\ [](/\ ring.status \in {"Empty", "Normal", "Full"}
        /\ ring.status \in {"Empty", "Full"} => ring.head = ring.tail
        /\ ring.status = "Normal" => ring.head # ring.tail)

\* both tasks have written and both have read, the parent bytes the child wrote; the
\* bytes were written across the end of the array
C32_Witness ==
  /\ \E i \in 1..Len(received[INITPROC]) : received[INITPROC][i] = 100 * Child + 1
  /\ received[Child] # <<>>
  /\ \E i \in 1..Len(sent) : sent[i] = 100 * INITPROC + 1
  /\ ring.arr[RING_BUFFER_SIZE - 1] # 0
  /\ ring.arr[0] # 0

----------------------------------------------------------------------------
(* SpecWaittid: the main thread creates two threads, which exit with      *)
(* codes of their own, and calls sys_waittid three times with tids of its  *)
(* choice                                                                  *)

\* the tids sys_waittid is called with: the tids of the model and two beyond them
WaitTids == 0..5

Waittid == I("waittid", WaitTids)

WaittidProgs ==
  [t \in Tasks |->
     IF t = 1 THEN <<ThreadCreate, [ops |-> {"thread_create", "waittid"}, ms |-> WaitTids],
                     Waittid, Waittid, Waittid>>
     ELSE IF t \in {2, 3} THEN <<I("exit", {10 + t})>>
     ELSE <<>>]

InitWaittid == Boot(WaittidProgs) /\ RestIdle

NextWaittid ==
  \/ run_tasks
  \/ \E t \in Tasks : timer_interrupt(t)
  \/ \E t \in Tasks : sys_exit(t)
  \/ \E t \in Tasks : sys_thread_create(t)
  \/ \E t \in Tasks : \E tid \in WaitTids : sys_waittid(t, tid)

SpecWaittid == InitWaittid /\ [][NextWaittid]_vars

\* a thread with that tid exists in the process
ThreadExists(tid) == tid + 1 \in Tasks /\ task_status[tid + 1] \notin {"UnInit", "Cleared"}

\* what sys_waittid(tid) by thread t does according to its contract
WaittidContract(t, tid) ==
  IF tid = t - 1 \/ ~ThreadExists(tid)
    THEN ret'[t] = -1 /\ UNCHANGED <<task_status, exit_code>> /\ panicked' = ""
  ELSE IF task_status[tid + 1] # "Zombie"
    THEN ret'[t] = -2 /\ UNCHANGED <<task_status, exit_code>> /\ panicked' = ""
  ELSE /\ ret'[t] = exit_code[tid + 1]
       /\ ~ThreadExists(tid)'
       /\ \A o \in Tasks \ {tid + 1} : task_status'[o] = task_status[o]
       /\ panicked' = ""

\* C33: sys_waittid(tid) returns -1 when tid is the caller's own tid or no thread with
\* that tid exists in the process, for every tid, also at or beyond the length of the
\* task list; it returns -2 when the thread exists and has not exited; otherwise it
\* returns the thread's exit code and clears its slot, so that a second waittid(tid)
\* finds no thread. On -1 and -2 nothing changes.
C33_Waittid ==
  [][\A t \in Tasks : \A tid \in WaitTids :
       Calls("waittid", t, tid) => WaittidContract(t, tid)]_vars

\* the contract holds for every tid below the length of the task list and for the
\* caller's own tid, and a call with any other tid stops the kernel
WaittidWithinTaskList ==
  [][\A t \in Tasks : \A tid \in WaitTids :
       Calls("waittid", t, tid) =>
         IF tid < tasks_len \/ tid = t - 1
           THEN WaittidContract(t, tid)
           ELSE panicked' = "index out of bounds" /\ UNCHANGED <<task_status, ret>>]_vars

\* the main thread has collected the exit code of the thread with tid 1 and its next
\* sys_waittid(1) has returned -1
WaittidCollected ==
  /\ task_status[2] = "Cleared"
  /\ last_call = <<"waittid", 1, 1>>
  /\ ret[1] = -1
  /\ panicked = ""

----------------------------------------------------------------------------
(* Exclusive access to the cells of the kernel, under SpecAbba            *)

\* C34: no system call asks for exclusive access to a cell its own control flow
\* holds: the kernel never stops with a BorrowMutError, and sys_mutex_lock with
\* detection enabled goes on to the safety test and to returning 0 or -0xDEAD or to
\* waiting for the mutex.
C34_NoReentrantBorrow ==
  /\ [](panicked # "BorrowMutError")
  /\ [][\A t \in Tasks : \A m \in MutexIds :
          (Calls("lock", t, m) /\ deadlock_detection_enabled) =>
             /\ panicked' = ""
             /\ \/ kpc'[t] = "user" /\ ret'[t] \in {0, -DEAD}
                \/ InLock(t, m)'
     ]_vars

----------------------------------------------------------------------------
(* SpecCopy: the system calls that store a struct into user memory        *)

\* the pages of the user buffer: the two lowest
CopyVPNs == {0, 1}

\* the user pointers: the bytes before the end of page 0 at which a struct starts
PointersBefore(ds) == {PAGE_SIZE - d : d \in ds}

\* the times in microseconds
Micros == {1000002, 3000005}

\* the system call counts of a task: of sys_write (64) and of sys_task_info (410)
SyscallTimes ==
  {[n \in 0..(MAX_SYSCALL_NUM - 1) |-> IF n = 64 THEN w ELSE IF n = 410 THEN 1 ELSE 0] :
     w \in {0, 3}}

\* the file descriptors of the calls: stdin, the open file, an empty slot
CopyFds == {0, 3, 4}

\* the task has opened a file of the root directory
InitCopy ==
  /\ KernelBoot(NoProgs)
  /\ pid = [t \in Tasks |-> 1]
  /\ parent = [t \in Tasks |-> NoTask]
  /\ children = [t \in Tasks |-> <<>>]
  /\ exit_code = [t \in Tasks |-> 0]
  /\ out = [t \in Tasks |-> 0]
  /\ pid_allocator = [current |-> 2, recycled |-> <<>>]
  /\ fd_table = [t \in Tasks |-> StdioTable \o <<"OSInode">>]
  /\ DetectorIdle
  /\ FramesReady(1, Frames + 4)
  /\ FilesIdle
  /\ PagesIdle
  /\ mm_op = <<>>
  /\ mm_panic = ""

NextCopy ==
  \/ PageTable_new
  \/ \E vpn \in CopyVPNs : map(vpn, DataPPN(vpn), R + W + U)
  \/ \E ts \in PointersBefore({0, 4, 8, 12, 16, PAGE_SIZE}) : \E us \in Micros :
       sys_get_time(ts, us)
  \/ \E ti \in PointersBefore({4, 1008, 2012, 2016}) : \E times \in SyscallTimes :
       sys_task_info(ti, times, 5)
  \/ \E fd \in CopyFds : \E st \in PointersBefore({1, 8, 72, 80}) :
       \E ino \in {1, 258} : \E nlink \in {1, 2} :
         sys_fstat(INITPROC, fd, st, ino, nlink)

SpecCopy == InitCopy /\ [][NextCopy]_vars

\* the call stored a struct
Stored == copied # <<>>

\* C35: a struct a system call stored into user memory is there byte for byte, also
\* when it lies across a page boundary.
C35_StructCopy == Stored => copied.dst = copied.src

\* what the code does keep: a struct inside one page is stored byte for byte, and so
\* is one that sys_get_time or sys_task_info stores across a page boundary in two
\* halves of one length
StructCopyInOnePage ==
  Stored =>
    \/ /\ copied.ptr \div PAGE_SIZE # (copied.ptr + Len(copied.src) - 1) \div PAGE_SIZE
       /\ ~(copied.op # "sys_fstat" /\ 2 * (PAGE_SIZE - copied.ptr) = Len(copied.src))
    \/ copied.dst = copied.src

\* sys_get_time stored a TimeVal across the page boundary in two halves
TimeValInHalves ==
  /\ Stored
  /\ copied.op = "sys_get_time"
  /\ copied.ptr = PAGE_SIZE - 8
  /\ copied.dst = copied.src

----------------------------------------------------------------------------
(* The ready queue, under Spec                                             *)

\* the tasks on the wait queues of the mutexes
OnWaitQueue ==
  {t \in Tasks : \E m \in 1..Len(mutex_list) : \E i \in 1..Len(mutex_list[m].wait_queue) :
                   mutex_list[m].wait_queue[i] = t}

\* C36: every task in the ready queue has status Ready, is there once, and is neither
\* the current task of the processor nor on the wait queue of a mutex; no Zombie is in
\* the ready queue.
C36_ReadyQueue ==
  \A i \in 1..Len(ready_queue) :
    /\ task_status[ready_queue[i]] = "Ready"
    /\ \A j \in 1..Len(ready_queue) : ready_queue[j] = ready_queue[i] => j = i
    /\ ready_queue[i] # current
    /\ ready_queue[i] \notin OnWaitQueue

\* a woken task is last in the ready queue while a task runs and a task waits for a
\* mutex
C36_Witness ==
  /\ ready_queue # <<>>
  /\ current # NoTask
  /\ OnWaitQueue # {}
  /\ \E m \in MutexIds :
       /\ wake_log[m] # <<>>
       /\ wake_log[m][Len(wake_log[m])] = ready_queue[Len(ready_queue)]

----------------------------------------------------------------------------
(* SpecShare: three tasks that set their priority and yield, from the     *)
(* state in which each of them, at the default priority, has been         *)
(* dispatched 524287 times since stride 0                                 *)

SetPriority(prios) == I("set_priority", prios)

\* the stride of a task after n dispatches at the default priority
StrideAfter(n) == <<(n * (BIG_STRIDE \div DEFAULT_PRIORITY)) \div Limb,
                    (n * (BIG_STRIDE \div DEFAULT_PRIORITY)) % Limb>>

\* the rounds of dispatches before the first state of SpecShare: the last one that
\* leaves the strides below 0x7FFF_FFFF
Rounds == 2147483647 \div (BIG_STRIDE \div DEFAULT_PRIORITY)

ShareProgs ==
  [t \in Tasks |-> IF t \in StrideTasks
                     THEN <<SetPriority({1, 2, DEFAULT_PRIORITY})>> \o Repeat(<<Yield>>, Yields)
                     ELSE <<>>]

InitShare ==
  /\ task_status = [t \in Tasks |-> IF t \in StrideTasks THEN "Ready" ELSE "UnInit"]
  /\ ready_queue = <<1, 2, 3>>
  /\ current = NoTask
  /\ priority = [t \in Tasks |-> DEFAULT_PRIORITY]
  /\ stride = [t \in Tasks |-> IF t \in StrideTasks THEN StrideAfter(Rounds) ELSE U64(0)]
  /\ kpc = [t \in Tasks |-> "user"]
  /\ kmx = [t \in Tasks |-> 0]
  /\ ret = [t \in Tasks |-> 0]
  /\ mutex_list = <<>>
  /\ available = [m \in MutexIds |-> 1]
  /\ allocation = [t \in Tasks |-> [m \in MutexIds |-> 0]]
  /\ need = [t \in Tasks |-> [m \in MutexIds |-> 0]]
  /\ deadlock_detection_enabled = FALSE
  /\ panicked = ""
  /\ held = [t \in Tasks |-> {}]
  /\ discipline = TRUE
  /\ lock_log = [m \in MutexIds |-> <<>>]
  /\ wake_log = [m \in MutexIds |-> <<>>]
  /\ last_call = <<"boot", NoTask, 0>>
  /\ dispatched = [t \in Tasks |-> 0]
  /\ counter = 0
  /\ reg = [t \in Tasks |-> 0]
  /\ prog = ShareProgs
  /\ upc = [t \in Tasks |-> 1]
  /\ pid = [t \in Tasks |-> t]
  /\ parent = [t \in Tasks |-> NoTask]
  /\ children = [t \in Tasks |-> <<>>]
  /\ exit_code = [t \in Tasks |-> 0]
  /\ out = [t \in Tasks |-> 0]
  /\ pid_allocator = [current |-> 5, recycled |-> <<>>]
  /\ fd_table = [t \in Tasks |-> StdioTable]
  /\ RestIdle

NextShare ==
  \/ run_tasks
  \/ \E t \in Tasks : sys_yield(t)
  \/ \E t \in Tasks : timer_interrupt(t)
  \/ \E t \in Tasks : \E prio \in {1, 2, DEFAULT_PRIORITY} : sys_set_priority(t, prio)

SpecShare == InitShare /\ [][NextShare]_vars

\* the stride of a is at most that of b plus n
U64Within(a, b, n) == ~U64Lt(U64Add(b, n), a)

\* C38: among tasks that started with stride 0, keep priorities of 2 or more and only
\* yield, the largest stride is at most BIG_STRIDE / 2 above the smallest one at every
\* scheduling step.
C38_StrideSpread ==
  \A a, b \in StrideTasks : U64Within(stride[a], stride[b], BIG_STRIDE \div 2)

\* what the code does keep: while a stride is below 0x7FFF_FFFF the spread is within
\* BIG_STRIDE / 2
StrideSpreadBelowSentinel ==
  (\E t \in StrideTasks : U64Lt(stride[t], MIN_STRIDE_INIT)) => C38_StrideSpread

\* a task of priority 2 was dispatched at a stride of 0x7FFF_FFFF or more, ahead of a
\* task of a lower stride
DispatchedAboveSentinel ==
  /\ current # NoTask
  /\ priority[current] = 2
  /\ \E b \in StrideTasks :
       /\ b # current /\ task_status[b] = "Ready"
       /\ U64Lt(U64Add(stride[b], BIG_STRIDE \div 2), stride[current])

----------------------------------------------------------------------------
(* SpecStarve: three tasks from stride 0 that set their priority, yield    *)
(* and then compute for ever, preempted by the timer                       *)

\* the priorities the tasks ask for
StarvePrios == {1, 2, DEFAULT_PRIORITY, BIG_STRIDE + 1}

StarveProgs ==
  [t \in Tasks |-> IF t = 1 THEN <<SetPriority({BIG_STRIDE + 1}), Yield>>
                   ELSE IF t \in StrideTasks THEN <<SetPriority(StarvePrios), Yield>>
                   ELSE <<>>]

InitStarve ==
  /\ task_status = [t \in Tasks |-> IF t \in StrideTasks THEN "Ready" ELSE "UnInit"]
  /\ ready_queue = <<1, 2, 3>>
  /\ current = NoTask
  /\ priority = [t \in Tasks |-> DEFAULT_PRIORITY]
  /\ stride = [t \in Tasks |-> U64(0)]
  /\ kpc = [t \in Tasks |-> "user"]
  /\ kmx = [t \in Tasks |-> 0]
  /\ ret = [t \in Tasks |-> 0]
  /\ mutex_list = <<>>
  /\ available = [m \in MutexIds |-> 1]
  /\ allocation = [t \in Tasks |-> [m \in MutexIds |-> 0]]
  /\ need = [t \in Tasks |-> [m \in MutexIds |-> 0]]
  /\ deadlock_detection_enabled = FALSE
  /\ panicked = ""
  /\ held = [t \in Tasks |-> {}]
  /\ discipline = TRUE
  /\ lock_log = [m \in MutexIds |-> <<>>]
  /\ wake_log = [m \in MutexIds |-> <<>>]
  /\ last_call = <<"boot", NoTask, 0>>
  /\ dispatched = [t \in Tasks |-> 0]
  /\ counter = 0
  /\ reg = [t \in Tasks |-> 0]
  /\ prog = StarveProgs
  /\ upc = [t \in Tasks |-> 1]
  /\ pid = [t \in Tasks |-> t]
  /\ parent = [t \in Tasks |-> NoTask]
  /\ children = [t \in Tasks |-> <<>>]
  /\ exit_code = [t \in Tasks |-> 0]
  /\ out = [t \in Tasks |-> 0]
  /\ pid_allocator = [current |-> 5, recycled |-> <<>>]
  /\ fd_table = [t \in Tasks |-> StdioTable]
  /\ RestIdle

\* the timer preempts t, which has run its program and computes
Preempted(t) == upc[t] > Len(prog[t]) /\ timer_interrupt(t)

\* the steps of task t
StepOf(t) ==
  \/ sys_yield(t)
  \/ Preempted(t)
  \/ \E prio \in StarvePrios : sys_set_priority(t, prio)

NextStarve ==
  \/ run_tasks_on
  \/ \E t \in Tasks : StepOf(t)

\* the idle loop goes on, and every dispatched task yields or is preempted
SpecStarve ==
  /\ InitStarve /\ [][NextStarve]_vars
  /\ WF_vars(run_tasks_on)
  /\ \A t \in Tasks : WF_vars(StepOf(t))

\* t is in the ready queue
InReadyQueue(t) == \E i \in 1..Len(ready_queue) : ready_queue[i] = t

\* C37: no ready task starves: every task in the ready queue is dispatched in the end,
\* whatever the strides and priorities (of 2 or more) of the tasks are.
C37_NoStarvation == \A t \in StrideTasks : InReadyQueue(t) ~> (current = t)

\* what the code does keep: the tasks whose pass BIG_STRIDE / priority is 0 are
\* dispatched again and again
PassZeroRuns ==
  \A t \in StrideTasks :
    (InReadyQueue(t) /\ priority[t] > BIG_STRIDE) ~> (current = t)

----------------------------------------------------------------------------
(* One entry per block, under SpecCache                                    *)

\* the entries of block b in the queue
EntriesOf(b) == {k \in 1..Len(cache_queue) : cache_queue[k].block_id = b}

\* C39: the queue of the block cache holds at most one entry per block, so the holders
\* of a block share one buffer and one dirty flag: a request for a block that is cached
\* hands out the entry that is there, with its buffer and flag, and reads no block from
\* the device.
C39_OneEntryPerBlock ==
  /\ [](\A b \in Blocks : Cardinality(EntriesOf(b)) <= 1)
  /\ [][\A b \in Blocks : (GetsBlock(b) /\ EntriesOf(b) # {}) =>
          \E k \in EntriesOf(b) :
            /\ cache_queue' = [cache_queue EXCEPT ![k].handles = @ + 1]
            /\ \A i \in 1..Len(cache_io') : cache_io'[i][1] # "read_block"
     ]_vars

\* two callers hold the one entry of a block that one of them has modified
C39_Witness ==
  \E k \in 1..Len(cache_queue) :
    /\ cache_queue[k].handles >= 2
    /\ cache_queue[k].modified
    /\ cache_op = <<"get_block_cache", cache_queue[k].block_id>>

----------------------------------------------------------------------------
(* SpecDir: create, link and unlink on a root directory in which up to two *)
(* files have been created                                                 *)

\* the names of the calls
DirNames == {"a", "b", "c"}

\* the records of a directory
RecordsOf(disk_inode) == SubSeq(disk_inode.data, 1, disk_inode.size \div DIRENT_SZ)

\* the inode ids alloc_inode may return: those no record of the directory carries
NewInodeIds ==
  (1..4) \ {RecordsOf(root_inode)[k].inode_id : k \in 1..Len(RecordsOf(root_inode))}

\* the directories after the creation of no file, of one file and of two files
CreatedDirs ==
  {<<>>} \cup {<<[name |-> n, inode_id |-> 1]>> : n \in DirNames}
    \cup {<<[name |-> nm[1], inode_id |-> 1], [name |-> nm[2], inode_id |-> 2]>> :
            nm \in {p \in DirNames \X DirNames : p[1] # p[2]}}

InitDir ==
  /\ Boot(NoProgs)
  /\ DetectorIdle /\ MemoryIdle /\ PipesIdle /\ CacheIdle /\ BitmapIdle /\ copied = <<>>
  /\ \E data \in CreatedDirs : root_inode = [size |-> Len(data) * DIRENT_SZ, data |-> data]
  /\ dir_op = <<>>
  /\ dir_prev = root_inode
  /\ dir_ops = 0

NextDir ==
  \/ \E name \in DirNames : \E id \in NewInodeIds : Inode_create(name, id)
  \/ \E old, new \in DirNames : sys_linkat(old, new)
  \/ \E name \in DirNames : Inode_unlink(name)

SpecDir == InitDir /\ [][NextDir]_vars

\* no two records of the directory carry one name
UniqueNames(disk_inode) ==
  \A k, l \in 1..Len(RecordsOf(disk_inode)) :
    RecordsOf(disk_inode)[k].name = RecordsOf(disk_inode)[l].name => k = l

\* C40: after any sequence of create, link and unlink on the root directory no two
\* records carry the same name, and a name is not found right after its unlink has
\* returned 0.
C40_UniqueNames ==
  /\ [](UniqueNames(root_inode))
  /\ [][\A name \in DirNames :
          (dir_ops' # dir_ops /\ dir_op' = <<"unlink", name, 0>>) =>
             find_inode_id(name, root_inode') = -1]_vars

\* what the code does keep: create and unlink leave the names unique, and so does a
\* link to a name that the directory lacks
UniqueNamesButLinkOnto ==
  [][(UniqueNames(root_inode)
       /\ ~(dir_op'[1] = "link" /\ find_inode_id(dir_op'[2], root_inode) # -1))
     => UniqueNames(root_inode')]_vars

\* a link has added a second record of a name
LinkedOnto ==
  /\ dir_op = <<"link", "b", 0>>
  /\ UniqueNames(dir_prev)
  /\ ~UniqueNames(root_inode)

====
